---- MODULE Spec2Model ----
(***************************************************************************)
(* Model of the connection registry (AppContext._mongoClients) and of the  *)
(* connection-string selector (retrieveConnectionStringFromArm) of the     *)
(* azure-cosmosdb-ads-extension.                                           *)
(*                                                                         *)
(* The host is a single-threaded event loop: the synchronous part of a     *)
(* function up to its next await is one atomic step, and the settlement of *)
(* the awaited promise is the next step of the same call.  Several calls   *)
(* may be in flight at once; Tasks are the concurrent callers.             *)
(***************************************************************************)
EXTENDS Integers, Sequences, FiniteSets, TLC

(* ------------------------------ bounds -------------------------------- *)
NumTasks == 2
MaxConns == 2
MaxCandidates == 3
MaxPickAttempts == 3
MaxPathLen == 10
MaxAccounts == 3
MaxResources == 2

Tasks == 1..NumTasks
Servers == {"a", "b"}
Conns == 1..MaxConns
ConnectionStrings == {"reachable", "unreachable"}

\* the JavaScript value undefined, for a MongoClient reference
Undefined == 0

VARIABLES
    \* ---- AppContext ----
    _mongoClients,   \* Map<string, MongoClient>: server -> connection or Undefined (no entry)
    clientState,     \* per MongoClient object: "unopened", "open", "closing", "closed"
    clientServer,    \* per MongoClient object: the server key whose connect() opened it
    nextClient,      \* the next MongoClient object MongoClient.connect will create
    \* ---- one in-flight call per task ----
    pc,              \* "idle", "connecting" (awaiting MongoClient.connect), "closing" (awaiting close())
    server,          \* the call's server argument
    connectionString,\* the call's connectionString argument (connect only)
    client,          \* disconnect's local `client`
    ret,             \* the call that returned last: its operation, server, outcome and value
    \* ---- observations about the calls (no effect on the program) ----
    returned,        \* per server: connections returned by connect(server) since the last
                     \* call of connect(server) or disconnect(server)
    peerOpened,      \* per task: connections other calls opened for the task's server while
                     \* the task's own connect was awaiting
    disconnected,    \* per observed server: a disconnect(server) has completed and no
                     \* connect(server) was called since
    \* ---- retrieveConnectionStringFromArm ----
    variant,         \* "appContext" (src/appContext.ts) or "armService" (AbstractArmService.ts)
    PICK_MAX_ATTEMPTS,
    connectionStrings,      \* the listConnectionStrings response: <<"absent">> or <<"list", seq>>
    connectionStringsPicks, \* the picks shown to the chooser
    connectionStringPick,   \* index of the chosen pick, 0 = undefined
    attempts,
    spc,             \* position of the selector run
    sret,            \* result of the run
    chooserCalls,    \* number of showQuickPick invocations
    responses,       \* what each showQuickPick invocation returned
    \* ---- parsedAzureResourceId ----
    path,            \* the azureResourceId argument, a string as its sequence of characters
    ppc,             \* "idle", "ready" (about to be called), "done"
    presult,         \* what the call returned
    \* ---- createArmClient, createArmMonitorClient, retrieveResourceId and the part of
    \* ---- retrieveConnectionStringFromArm before listConnectionStrings ----
    entry,            \* the function that was called
    suppliedId,       \* the azureResourceId argument of that call
    apc,              \* the await the run is suspended at
    azureResourceId,  \* the azureResourceId variable of the function that is running
    armEndpoint,      \* armEndpoint of createArmClient: 0 absent, 1 an endpoint
    credentials,      \* TokenCredentials of the last token: 0 none
    resourceGroup,    \* resourceGroup of retrieveConnectionStringFromArm
    steps,            \* the steps the client factory has begun, in order
    locatorCalls,     \* invocations of retrieveResourceInfofromArm
    locatorResults,   \* what each of them returned
    tokenRequests,    \* invocations of getAccountSecurityToken
    parsedIds,        \* the arguments of the calls of parsedAzureResourceId
    managementClients,\* the CosmosDBManagementClient / MonitorManagementClient objects constructed
    aresult,          \* how the run ended
    \* ---- createMongoCollection and getMongoShellOptions, one call at a time ----
    version,          \* "appContext" (the current AppContext) or "older" (from line 935)
    op,               \* the method that was called
    info,             \* its connection info: server, authenticationType
    opc,              \* the await the call is suspended at
    mongoClientLocal, \* createMongoCollection's local mongoClient
    oresult,          \* how the promise settled; kind "none" while it has not
    credentialLookups,\* getConnections and getCredentials invocations of the call
    retrievals,       \* retrieveConnectionStringFromArm invocations of the call
    connectCalls,     \* this.connect invocations of the call
    registryAtCall,   \* _mongoClients when the method was called
    cachedClient,     \* the entry of the call's server when its arguments were complete
    originError,      \* the error retrieveConnectionStringFromArm threw
    \* ---- retrieveAzureAccount, retrieveAzureToken, retrievePortalEndpoint ----
    accounts,         \* what azdata.accounts.getAllAccounts returns, in its order
    accountId,        \* the accountId argument
    call,             \* the function that was called
    cpc,              \* the await the call is suspended at
    azureAccount,     \* index in accounts of the account found, 0 before
    tokenExchanges,   \* invocations of getAccountSecurityToken
    azureToken,       \* what getAccountSecurityToken resolved to
    cresult,          \* how the call ended
    \* ---- retrieveMongoDbDatabasesInfoFromArm / retrieveMongoDbCollectionsInfoFromArm,
    \* ---- from the listing of the resources on ----
    fkind,            \* "databases" or "collections"
    resources,        \* the listed resources in order: TRUE for one that has a name
    fpc,              \* the await the aggregate call is suspended at
    items,            \* positions in resources of the named ones: one retrieval each
    ipc,              \* per retrieval: the await it is suspended at, or how it settled
    iinfo,            \* per retrieval: the info it has built so far
    ifailed,          \* per retrieval: the remote calls of it that failed
    fres              \* how the aggregate call settled

registryVars == <<_mongoClients, clientState, clientServer, nextClient, pc, server,
                  connectionString, client, ret, returned, peerOpened, disconnected>>
selectorVars == <<variant, PICK_MAX_ATTEMPTS, connectionStrings, connectionStringsPicks,
                  connectionStringPick, attempts, spc, sret, chooserCalls, responses>>
parserVars == <<path, ppc, presult>>
armVars == <<entry, suppliedId, apc, azureResourceId, armEndpoint, credentials, resourceGroup,
             steps, locatorCalls, locatorResults, tokenRequests, parsedIds,
             managementClients, aresult>>
orchVars == <<version, op, info, opc, mongoClientLocal, oresult, credentialLookups, retrievals,
              connectCalls, registryAtCall, cachedClient, originError>>
credVars == <<accounts, accountId, call, cpc, azureAccount, tokenExchanges, azureToken, cresult>>
fanVars == <<fkind, resources, fpc, items, ipc, iinfo, ifailed, fres>>
vars == <<registryVars, selectorVars, parserVars, armVars, orchVars, credVars, fanVars>>
\* what the registry's steps leave alone, and what the selector's steps leave alone
nonRegistryVars == <<selectorVars, parserVars, armVars, orchVars, credVars, fanVars>>
nonSelectorVars == <<registryVars, parserVars, armVars, orchVars, credVars, fanVars>>
nonArmVars == <<registryVars, selectorVars, parserVars, orchVars, credVars, fanVars>>
nonOrchVars == <<selectorVars, parserVars, armVars, credVars, fanVars>>
nonCredVars == <<registryVars, selectorVars, parserVars, armVars, orchVars, fanVars>>
nonFanVars == <<registryVars, selectorVars, parserVars, armVars, orchVars, credVars>>

\* nothing has returned yet
NoRet == [op |-> "none", server |-> "none", kind |-> "none", val |-> Undefined]

(* ------------------------- AppContext registry ------------------------ *)

\* AppContext.hasConnection
hasConnection(s) == _mongoClients[s] # Undefined

\* the AppContext after construction: an empty map, no call in flight
NewRegistry ==
    /\ _mongoClients = [s \in Servers |-> Undefined]
    /\ clientState = [c \in Conns |-> "unopened"]
    /\ clientServer = [c \in Conns |-> "none"]
    /\ nextClient = 1
    /\ pc = [t \in Tasks |-> "idle"]
    /\ server = [t \in Tasks |-> "none"]
    /\ connectionString = [t \in Tasks |-> "none"]
    /\ client = [t \in Tasks |-> Undefined]
    /\ ret = NoRet
    /\ returned = [s \in Servers |-> {}]
    /\ peerOpened = [t \in Tasks |-> {}]

\* a new AppContext, the order of disconnect and connect calls not observed
NewAppContext == NewRegistry /\ disconnected = [s \in {} |-> FALSE]

\* a new AppContext, the order of disconnect and connect calls observed for every server
NewAppContextObserved == NewRegistry /\ disconnected = [s \in Servers |-> FALSE]

\* the observation after a disconnect(s) completed (v = TRUE) or a connect(s) was called
\* (v = FALSE)
Observe(s, v) == [k \in DOMAIN disconnected |-> IF k = s THEN v ELSE disconnected[k]]

\* the call of task t is over: its locals are gone
Finish(t) ==
    /\ pc' = [pc EXCEPT ![t] = "idle"]
    /\ server' = [server EXCEPT ![t] = "none"]
    /\ connectionString' = [connectionString EXCEPT ![t] = "none"]
    /\ client' = [client EXCEPT ![t] = Undefined]

\* connect(server, connectionString), up to `await MongoClient.connect(...)`
ConnectStart(t, s, cs) ==
    /\ pc[t] = "idle"
    /\ pc' = [pc EXCEPT ![t] = "connecting"]
    /\ server' = [server EXCEPT ![t] = s]
    /\ connectionString' = [connectionString EXCEPT ![t] = cs]
    /\ returned' = [returned EXCEPT ![s] = {}]
    /\ UNCHANGED <<_mongoClients, clientState, clientServer, nextClient, client, ret,
                   peerOpened>>
    /\ UNCHANGED nonRegistryVars
    /\ disconnected' = Observe(s, FALSE)

\* this._mongoClients.set(server, mongoClient)
MapSet(m, s, c) == [m EXCEPT ![s] = c]

\* connect: MongoClient.connect resolved; set the entry and return the client
ConnectResolve(t) ==
    /\ pc[t] = "connecting"
    /\ connectionString[t] = "reachable"
    /\ nextClient <= MaxConns
    /\ LET mongoClient == nextClient
           s == server[t]
       IN /\ clientState' = [clientState EXCEPT ![mongoClient] = "open"]
          /\ clientServer' = [clientServer EXCEPT ![mongoClient] = s]
          /\ nextClient' = nextClient + 1
          /\ _mongoClients' = MapSet(_mongoClients, s, mongoClient)
          /\ ret' = [op |-> "connect", server |-> s, kind |-> "returned",
                     val |-> mongoClient]
          /\ returned' = [returned EXCEPT ![s] = @ \cup {mongoClient}]
          /\ peerOpened' = [u \in Tasks |->
                 IF u # t /\ pc[u] = "connecting" /\ server[u] = s
                 THEN peerOpened[u] \cup {mongoClient}
                 ELSE IF u = t THEN {} ELSE peerOpened[u]]
    /\ Finish(t)
    /\ UNCHANGED nonRegistryVars
    /\ UNCHANGED disconnected

\* variant: connect without the try/catch, the rejection reaches the caller
ConnectRejectNoCatch(t) ==
    /\ pc[t] = "connecting"
    /\ ret' = [op |-> "connect", server |-> server[t], kind |-> "threw",
               val |-> Undefined]
    /\ peerOpened' = [peerOpened EXCEPT ![t] = {}]
    /\ Finish(t)
    /\ UNCHANGED <<_mongoClients, clientState, clientServer, nextClient, returned>>
    /\ UNCHANGED nonRegistryVars
    /\ UNCHANGED disconnected

\* connect: MongoClient.connect rejected; the catch block returns undefined
ConnectReject(t) ==
    /\ pc[t] = "connecting"
    /\ ret' = [op |-> "connect", server |-> server[t], kind |-> "returned",
               val |-> Undefined]
    /\ peerOpened' = [peerOpened EXCEPT ![t] = {}]
    /\ Finish(t)
    /\ UNCHANGED <<_mongoClients, clientState, clientServer, nextClient, returned>>
    /\ UNCHANGED nonRegistryVars
    /\ UNCHANGED disconnected

\* variant: disconnect without the has() check, `client!.close()` on undefined throws
DisconnectAbsentNoGuard(t, s) ==
    /\ pc[t] = "idle"
    /\ ~hasConnection(s)
    /\ ret' = [op |-> "disconnect", server |-> s, kind |-> "threw",
               val |-> Undefined]
    /\ returned' = [returned EXCEPT ![s] = {}]
    /\ UNCHANGED <<_mongoClients, clientState, clientServer, nextClient, pc, server,
                   connectionString, client, peerOpened>>
    /\ UNCHANGED nonRegistryVars
    /\ disconnected' = Observe(s, TRUE)

\* disconnect(server) when the map has no entry: return Promise.resolve()
DisconnectAbsent(t, s) ==
    /\ pc[t] = "idle"
    /\ ~hasConnection(s)
    /\ ret' = [op |-> "disconnect", server |-> s, kind |-> "resolved",
               val |-> Undefined]
    /\ returned' = [returned EXCEPT ![s] = {}]
    /\ UNCHANGED <<_mongoClients, clientState, clientServer, nextClient, pc, server,
                   connectionString, client, peerOpened>>
    /\ UNCHANGED nonRegistryVars
    /\ disconnected' = Observe(s, TRUE)

\* variant: disconnect that closes the client and forgets to delete the entry
DisconnectPresentNoDelete(t, s) ==
    /\ pc[t] = "idle"
    /\ hasConnection(s)
    /\ client' = [client EXCEPT ![t] = _mongoClients[s]]
    /\ clientState' = [clientState EXCEPT ![_mongoClients[s]] = "closing"]
    /\ pc' = [pc EXCEPT ![t] = "closing"]
    /\ server' = [server EXCEPT ![t] = s]
    /\ returned' = [returned EXCEPT ![s] = {}]
    /\ UNCHANGED <<_mongoClients, clientServer, nextClient, connectionString, ret,
                   peerOpened>>
    /\ UNCHANGED nonRegistryVars
    /\ UNCHANGED disconnected

\* variant: disconnect that empties the whole map instead of deleting one entry
DisconnectPresentClear(t, s) ==
    /\ pc[t] = "idle"
    /\ hasConnection(s)
    /\ client' = [client EXCEPT ![t] = _mongoClients[s]]
    /\ _mongoClients' = [k \in Servers |-> Undefined]
    /\ clientState' = [clientState EXCEPT ![_mongoClients[s]] = "closing"]
    /\ pc' = [pc EXCEPT ![t] = "closing"]
    /\ server' = [server EXCEPT ![t] = s]
    /\ returned' = [returned EXCEPT ![s] = {}]
    /\ UNCHANGED <<clientServer, nextClient, connectionString, ret, peerOpened>>
    /\ UNCHANGED nonRegistryVars
    /\ UNCHANGED disconnected

\* disconnect(server) when the map has an entry: get, delete, then close()
DisconnectPresent(t, s) ==
    /\ pc[t] = "idle"
    /\ hasConnection(s)
    /\ client' = [client EXCEPT ![t] = _mongoClients[s]]
    /\ _mongoClients' = [_mongoClients EXCEPT ![s] = Undefined]
    /\ clientState' = [clientState EXCEPT ![_mongoClients[s]] = "closing"]
    /\ pc' = [pc EXCEPT ![t] = "closing"]
    /\ server' = [server EXCEPT ![t] = s]
    /\ returned' = [returned EXCEPT ![s] = {}]
    /\ UNCHANGED <<clientServer, nextClient, connectionString, ret, peerOpened>>
    /\ UNCHANGED nonRegistryVars
    /\ UNCHANGED disconnected

\* AppContext.disconnect
disconnect(t, s) == DisconnectAbsent(t, s) \/ DisconnectPresent(t, s)

\* the promise of client.close() resolves, and with it the one disconnect returned
CloseResolve(t) ==
    /\ pc[t] = "closing"
    /\ clientState' = [clientState EXCEPT ![client[t]] = "closed"]
    /\ ret' = [op |-> "disconnect", server |-> server[t], kind |-> "resolved",
               val |-> Undefined]
    /\ Finish(t)
    /\ UNCHANGED <<_mongoClients, clientServer, nextClient, returned, peerOpened>>
    /\ UNCHANGED nonRegistryVars
    /\ disconnected' = Observe(server[t], TRUE)

\* the methods that use the client of a server and await one driver call on it
ReadOps == {"listDatabases", "listCollections", "removeDatabase", "removeCollection"}

\* what each method gives its caller when the map has no entry for the server
NoEntryOutcome(o) ==
    CASE o \in {"listDatabases", "listCollections"} -> "returned []"
      [] o \in {"removeDatabase", "removeCollection"} -> "returned false"
      [] o = "insertDocuments" -> "rejected Not connected"

\* AppContext.hasConnection(s), synchronous: it reads the map and changes nothing
HasConnectionCall(t, s) ==
    /\ pc[t] = "idle"
    /\ hasConnection(s) \in BOOLEAN
    /\ UNCHANGED registryVars
    /\ UNCHANGED nonRegistryVars

\* variant: removeDatabase and removeCollection also drop the server's entry
ReadStartDropsEntry(t, o, s) ==
    /\ pc[t] = "idle"
    /\ IF ~hasConnection(s)
       THEN /\ ret' = [op |-> o, server |-> s, kind |-> NoEntryOutcome(o), val |-> Undefined]
            /\ UNCHANGED <<_mongoClients, pc, server>>
       ELSE /\ pc' = [pc EXCEPT ![t] = o]
            /\ server' = [server EXCEPT ![t] = s]
            /\ _mongoClients' = IF o \in {"removeDatabase", "removeCollection"}
                                THEN [_mongoClients EXCEPT ![s] = Undefined]
                                ELSE _mongoClients
            /\ UNCHANGED ret
    /\ UNCHANGED <<clientState, clientServer, nextClient, connectionString, client,
                   returned, peerOpened>>
    /\ UNCHANGED nonRegistryVars
    /\ UNCHANGED disconnected

\* listDatabases, listCollections, removeDatabase, removeCollection: without an entry
\* return [] or false at once, else await the driver call on this._mongoClients.get(s)
ReadStart(t, o, s) ==
    /\ pc[t] = "idle"
    /\ IF ~hasConnection(s)
       THEN /\ ret' = [op |-> o, server |-> s, kind |-> NoEntryOutcome(o), val |-> Undefined]
            /\ UNCHANGED <<pc, server>>
       ELSE /\ pc' = [pc EXCEPT ![t] = o]
            /\ server' = [server EXCEPT ![t] = s]
            /\ UNCHANGED ret
    /\ UNCHANGED <<_mongoClients, clientState, clientServer, nextClient, connectionString,
                   client, returned, peerOpened>>
    /\ UNCHANGED nonRegistryVars
    /\ UNCHANGED disconnected

\* variant: insertDocuments without the test of the client
InsertStartNoClientCheck(t, s) ==
    /\ pc[t] = "idle"
    /\ pc' = [pc EXCEPT ![t] = "insertDocuments"]
    /\ server' = [server EXCEPT ![t] = s]
    /\ client' = [client EXCEPT ![t] = _mongoClients[s]]
    /\ UNCHANGED <<_mongoClients, clientState, clientServer, nextClient, connectionString,
                   ret, returned, peerOpened>>
    /\ UNCHANGED nonRegistryVars
    /\ UNCHANGED disconnected

\* insertDocuments: reject "Not connected" without a client, else await createCollection
\* and bulkWrite on it
InsertStart(t, s) ==
    /\ pc[t] = "idle"
    /\ IF ~hasConnection(s)
       THEN /\ ret' = [op |-> "insertDocuments", server |-> s,
                       kind |-> NoEntryOutcome("insertDocuments"), val |-> Undefined]
            /\ UNCHANGED <<pc, server, client>>
       ELSE /\ pc' = [pc EXCEPT ![t] = "insertDocuments"]
            /\ server' = [server EXCEPT ![t] = s]
            /\ client' = [client EXCEPT ![t] = _mongoClients[s]]
            /\ UNCHANGED ret
    /\ UNCHANGED <<_mongoClients, clientState, clientServer, nextClient, connectionString,
                   returned, peerOpened>>
    /\ UNCHANGED nonRegistryVars
    /\ UNCHANGED disconnected

\* the driver call of one of these methods settled, and the method returns or throws
UseSettle(t) ==
    /\ pc[t] \in ReadOps \cup {"insertDocuments"}
    /\ ret' = [op |-> pc[t], server |-> server[t], kind |-> "settled", val |-> Undefined]
    /\ Finish(t)
    /\ UNCHANGED <<_mongoClients, clientState, clientServer, nextClient, returned,
                   peerOpened>>
    /\ UNCHANGED nonRegistryVars
    /\ UNCHANGED disconnected

\* every method of AppContext that touches or reads the map, called concurrently
NextLifecycle ==
    \/ \E t \in Tasks, s \in Servers, cs \in ConnectionStrings : ConnectStart(t, s, cs)
    \/ \E t \in Tasks : ConnectResolve(t)
    \/ \E t \in Tasks : ConnectReject(t)
    \/ \E t \in Tasks, s \in Servers : disconnect(t, s)
    \/ \E t \in Tasks : CloseResolve(t)
    \/ \E t \in Tasks, s \in Servers : HasConnectionCall(t, s)
    \/ \E t \in Tasks, o \in ReadOps, s \in Servers : ReadStart(t, o, s)
    \/ \E t \in Tasks, s \in Servers : InsertStart(t, s)
    \/ \E t \in Tasks : UseSettle(t)

NextRegistry ==
    \/ \E t \in Tasks, s \in Servers, cs \in ConnectionStrings : ConnectStart(t, s, cs)
    \/ \E t \in Tasks : ConnectResolve(t)
    \/ \E t \in Tasks : ConnectReject(t)
    \/ \E t \in Tasks, s \in Servers : disconnect(t, s)
    \/ \E t \in Tasks : CloseResolve(t)

(* ------------------ retrieveConnectionStringFromArm ------------------- *)

\* a candidate's connectionString field: 0 is an absent or empty string
ConnectionStringValues == 0..2
Candidates == [connectionString : ConnectionStringValues]
CandidateLists == UNION {[1..n -> Candidates] : n \in 0..MaxCandidates}

NoResult == [kind |-> "none", connectionString |-> 0, error |-> "none"]
Returned(cs) == [kind |-> "returned", connectionString |-> cs, error |-> "none"]
Threw(e) == [kind |-> "threw", connectionString |-> 0, error |-> e]

\* the selector is not running
SelectorIdle ==
    /\ variant = "appContext"
    /\ PICK_MAX_ATTEMPTS = 1
    /\ connectionStrings = <<"absent", <<>> >>
    /\ connectionStringsPicks = <<>>
    /\ connectionStringPick = 0
    /\ attempts = 0
    /\ spc = "idle"
    /\ sret = NoResult
    /\ chooserCalls = 0
    /\ responses = <<>>

\* the values PICK_MAX_ATTEMPTS (imported from ./constant) may have: a small positive integer
PickMaxAttemptsValues == 1..MaxPickAttempts

\* one run, awaiting client.databaseAccounts.listConnectionStrings
SelectorListing ==
    /\ variant \in {"appContext", "armService", "older"}
    /\ PICK_MAX_ATTEMPTS \in PickMaxAttemptsValues
    /\ connectionStrings \in
           {<<"absent", <<>> >>} \cup {<<"list", l>> : l \in CandidateLists}
    /\ connectionStringsPicks = <<>>
    /\ connectionStringPick = 0
    /\ attempts = 0
    /\ spc = "listing"
    /\ sret = NoResult
    /\ chooserCalls = 0
    /\ responses = <<>>

\* connectionStringsResponse.connectionStrings is undefined
ListAbsent == connectionStrings[1] = "absent"
TheList == connectionStrings[2]

\* variant: the picks in reverse order of the list, the last of the list marked picked
MakePicksReversed(list) ==
    [i \in 1..Len(list) |->
        [connectionString |-> list[Len(list) + 1 - i].connectionString, picked |-> (i = 1)]]

\* connectionStrings.map((cs, index) => ({...cs, label, picked: index === 0}))
MakePicks(list) ==
    [i \in 1..Len(list) |->
        [connectionString |-> list[i].connectionString, picked |-> (i = 1)]]

\* appContext.ts: the response arrives; throw when absent, else build the picks
ListedAppContext ==
    /\ spc = "listing"
    /\ variant = "appContext"
    /\ IF ListAbsent
       THEN /\ sret' = Threw("NoConnectionStringsFound")
            /\ spc' = "done"
            /\ UNCHANGED connectionStringsPicks
       ELSE /\ connectionStringsPicks' = MakePicks(TheList)
            /\ spc' = "loop"
            /\ UNCHANGED sret
    /\ UNCHANGED <<variant, PICK_MAX_ATTEMPTS, connectionStrings, connectionStringPick,
                   attempts, chooserCalls, responses>>
    /\ UNCHANGED nonSelectorVars

\* AbstractArmService.ts: the response arrives; pick the first connection string
ListedArmService ==
    /\ spc = "listing"
    /\ variant = "armService"
    /\ sret' = IF ListAbsent THEN Threw("NoConnectionStringsFound")
               ELSE IF Len(TheList) = 0 THEN Threw("TypeError")
               ELSE IF TheList[1].connectionString = 0 THEN Threw("MissingConnectionString")
               ELSE Returned(TheList[1].connectionString)
    /\ spc' = "done"
    /\ UNCHANGED <<variant, PICK_MAX_ATTEMPTS, connectionStrings, connectionStringsPicks,
                   connectionStringPick, attempts, chooserCalls, responses>>
    /\ UNCHANGED nonSelectorVars

\* variant: the loop condition off by one
LoopGuardOffByOne ==
    /\ connectionStringPick = 0
    /\ Len(connectionStringsPicks) > 0
    /\ attempts <= PICK_MAX_ATTEMPTS

\* appContext.ts, older version (from line 935): connectionStrings?.[0]?.connectionString
ListedOlder ==
    /\ spc = "listing"
    /\ variant = "older"
    /\ sret' = IF ListAbsent THEN Threw("MissingConnectionString")
               ELSE IF Len(TheList) = 0 THEN Threw("MissingConnectionString")
               ELSE IF TheList[1].connectionString = 0 THEN Threw("MissingConnectionString")
               ELSE Returned(TheList[1].connectionString)
    /\ spc' = "done"
    /\ UNCHANGED <<variant, PICK_MAX_ATTEMPTS, connectionStrings, connectionStringsPicks,
                   connectionStringPick, attempts, chooserCalls, responses>>
    /\ UNCHANGED nonSelectorVars

\* the condition of the while loop
LoopGuard ==
    /\ connectionStringPick = 0
    /\ Len(connectionStringsPicks) > 0
    /\ attempts < PICK_MAX_ATTEMPTS

\* loop body, up to `await vscode.window.showQuickPick(connectionStringsPicks, ...)`
Prompt ==
    /\ spc = "loop"
    /\ LoopGuard
    /\ chooserCalls' = chooserCalls + 1
    /\ spc' = "picking"
    /\ UNCHANGED <<variant, PICK_MAX_ATTEMPTS, connectionStrings, connectionStringsPicks,
                   connectionStringPick, attempts, sret, responses>>
    /\ UNCHANGED nonSelectorVars

\* showQuickPick returns pick number `choice`, or undefined (0) when dismissed; attempts++
Picked(choice) ==
    /\ spc = "picking"
    /\ connectionStringPick' = choice
    /\ attempts' = attempts + 1
    /\ responses' = Append(responses, choice)
    /\ spc' = "loop"
    /\ UNCHANGED <<variant, PICK_MAX_ATTEMPTS, connectionStrings, connectionStringsPicks,
                   sret, chooserCalls>>
    /\ UNCHANGED nonSelectorVars

\* variant: the first (pre-selected) pick's string instead of the chosen one's
FirstConnectionString == connectionStringsPicks[1].connectionString

\* connectionStringPick.connectionString
PickedConnectionString == connectionStringsPicks[connectionStringPick].connectionString

\* variant: the code after the loop is reached only once something was picked
AfterLoopNeedsPick ==
    /\ spc = "loop"
    /\ ~LoopGuard
    /\ connectionStringPick # 0
    /\ sret' = IF PickedConnectionString = 0 THEN Threw("MissingConnectionString")
               ELSE Returned(PickedConnectionString)
    /\ spc' = "done"
    /\ UNCHANGED <<variant, PICK_MAX_ATTEMPTS, connectionStrings, connectionStringsPicks,
                   connectionStringPick, attempts, chooserCalls, responses>>
    /\ UNCHANGED nonSelectorVars

\* variant: the picked candidate's connectionString is returned unchecked
AfterLoopNoStringCheck ==
    /\ spc = "loop"
    /\ ~LoopGuard
    /\ sret' = IF connectionStringPick = 0 THEN Threw("MissingConnectionString")
               ELSE Returned(PickedConnectionString)
    /\ spc' = "done"
    /\ UNCHANGED <<variant, PICK_MAX_ATTEMPTS, connectionStrings, connectionStringsPicks,
                   connectionStringPick, attempts, chooserCalls, responses>>
    /\ UNCHANGED nonSelectorVars

\* after the loop: throw on a missing pick or connection string, else return it
AfterLoop ==
    /\ spc = "loop"
    /\ ~LoopGuard
    /\ sret' = IF connectionStringPick = 0 THEN Threw("MissingConnectionString")
               ELSE IF PickedConnectionString = 0 THEN Threw("MissingConnectionString")
               ELSE Returned(PickedConnectionString)
    /\ spc' = "done"
    /\ UNCHANGED <<variant, PICK_MAX_ATTEMPTS, connectionStrings, connectionStringsPicks,
                   connectionStringPick, attempts, chooserCalls, responses>>
    /\ UNCHANGED nonSelectorVars

NextSelector ==
    \/ ListedAppContext
    \/ ListedArmService
    \/ ListedOlder
    \/ Prompt
    \/ \E choice \in 0..Len(connectionStringsPicks) : Picked(choice)
    \/ AfterLoop

(* ------------------------ parsedAzureResourceId ----------------------- *)

PathChars == {"/", "x"}
Paths == UNION {[1..n -> PathChars] : n \in 0..MaxPathLen}

\* what indexing an array past its end gives
UndefinedSegment == <<"undefined">>

\* str.split("/"), character by character: cur is the segment being read
RECURSIVE SplitFrom(_, _, _)
SplitFrom(str, cur, acc) ==
    IF str = <<>> THEN Append(acc, cur)
    ELSE IF Head(str) = "/" THEN SplitFrom(Tail(str), <<>>, Append(acc, cur))
    ELSE SplitFrom(Tail(str), Append(cur, Head(str)), acc)

Split(str) == SplitFrom(str, <<>>, <<>>)

\* arr[i] with JavaScript's 0-based index
At(arr, i) == IF i + 1 <= Len(arr) THEN arr[i + 1] ELSE UndefinedSegment

\* variant: the subscription read one segment too far
parsedAzureResourceIdShifted(id) ==
    LET parts == Split(id)
    IN [subscriptionId |-> At(parts, 3),
        resourceGroup |-> At(parts, 4),
        dbAccountName |-> At(parts, 8)]

parsedAzureResourceId(id) ==
    LET parts == Split(id)
    IN [subscriptionId |-> At(parts, 2),
        resourceGroup |-> At(parts, 4),
        dbAccountName |-> At(parts, 8)]

NoParse == [kind |-> "none",
            value |-> [subscriptionId |-> UndefinedSegment,
                       resourceGroup |-> UndefinedSegment,
                       dbAccountName |-> UndefinedSegment]]

\* the parser is not called
ParserIdle ==
    /\ path = <<>>
    /\ ppc = "idle"
    /\ presult = NoParse

\* parsedAzureResourceId is about to be called on some string
ParserReady ==
    /\ path \in Paths
    /\ ppc = "ready"
    /\ presult = NoParse

\* the call: synchronous, it returns the record and never throws on a string
Parse ==
    /\ ppc = "ready"
    /\ presult' = [kind |-> "returned", value |-> parsedAzureResourceId(path)]
    /\ ppc' = "done"
    /\ UNCHANGED <<path, registryVars, selectorVars, armVars, orchVars, credVars, fanVars>>

NextParser == Parse

(* ------------------- the ARM client factory and resource id ------------ *)

\* resource ids, as strings: "/s/A/r/G/p/n/t/N", "/s/B/r/H/p/n/t/N" and the short "/s/A"
IdA == <<"/", "s", "/", "A", "/", "r", "/", "G", "/", "p", "/", "n", "/", "t", "/", "N">>
IdB == <<"/", "s", "/", "B", "/", "r", "/", "H", "/", "p", "/", "n", "/", "t", "/", "N">>
ShortId == <<"/", "s", "/", "A">>
EmptyId == <<>>
SuppliedIds == {EmptyId, IdA, IdB, ShortId}

\* result.data[0] of the resource graph query: no row, or a row with its id
NoRow == <<"undefined">>
LocatorRows == {NoRow, IdA, IdB}

ArmEntries == {"createArmClient", "createArmMonitorClient", "retrieveResourceId",
               "retrieveConnectionStringFromArm"}

NoArmResult == [kind |-> "none", error |-> "none", where |-> "none"]
ArmReturned(w) == [kind |-> "returned", error |-> "none", where |-> w]
ArmThrew(e, w) == [kind |-> "threw", error |-> e, where |-> w]

\* variant: the resource is looked up whatever id was passed
NeedsLocateAlways(id) == TRUE

\* !azureResourceId
NeedsLocate(id) == id = EmptyId

ClientKind ==
    IF entry = "createArmMonitorClient" THEN "MonitorManagementClient"
    ELSE "CosmosDBManagementClient"

\* no ARM call is running
ArmIdle ==
    /\ entry = "none" /\ suppliedId = EmptyId /\ apc = "idle"
    /\ azureResourceId = EmptyId /\ armEndpoint = 0 /\ credentials = 0
    /\ resourceGroup = UndefinedSegment
    /\ steps = <<>> /\ locatorCalls = 0 /\ locatorResults = <<>> /\ tokenRequests = 0
    /\ parsedIds = <<>> /\ managementClients = <<>> /\ aresult = NoArmResult

\* one of the functions was just called with some azureResourceId
ArmCalled ==
    /\ entry \in ArmEntries /\ suppliedId \in SuppliedIds /\ apc = "start"
    /\ azureResourceId = suppliedId /\ armEndpoint = 0 /\ credentials = 0
    /\ resourceGroup = UndefinedSegment
    /\ steps = <<>> /\ locatorCalls = 0 /\ locatorResults = <<>> /\ tokenRequests = 0
    /\ parsedIds = <<>> /\ managementClients = <<>> /\ aresult = NoArmResult

\* a throw ends the run: the rejection propagates through every caller
ArmThrow(e, w) ==
    /\ aresult' = ArmThrew(e, w)
    /\ apc' = "done"

\* the first await of the factory: retrieveAzureAccount's getAllAccounts
FactoryStart ==
    /\ apc = "start"
    /\ entry # "retrieveResourceId"
    /\ steps' = <<"account">>
    /\ apc' = "f_account"
    /\ UNCHANGED <<entry, suppliedId, azureResourceId, armEndpoint, credentials, resourceGroup,
                   locatorCalls, locatorResults, tokenRequests, parsedIds,
                   managementClients, aresult>>
    /\ UNCHANGED nonArmVars

\* variant: an account without an ARM endpoint is used like any other
FactoryAccountNoEndpointCheck(outcome) ==
    /\ apc = "f_account"
    /\ IF outcome = "none"
       THEN /\ ArmThrow("AccountNotFound", "factory")
            /\ UNCHANGED <<steps, armEndpoint>>
       ELSE /\ steps' = steps \o <<"endpoint", "token">>
            /\ armEndpoint' = IF outcome = "noEndpoint" THEN 0 ELSE 1
            /\ apc' = "f_token_account"
            /\ UNCHANGED aresult
    /\ UNCHANGED <<entry, suppliedId, azureResourceId, credentials, resourceGroup,
                   locatorCalls, locatorResults, tokenRequests, parsedIds, managementClients>>
    /\ UNCHANGED nonArmVars

\* getAllAccounts settled: no matching account, one without an ARM endpoint, or one
\* with it; then the endpoint check and the call of retrieveAzureToken
FactoryAccount(outcome) ==
    /\ apc = "f_account"
    /\ IF outcome = "none"
       THEN /\ ArmThrow("AccountNotFound", "factory")
            /\ UNCHANGED <<steps, armEndpoint>>
       ELSE IF outcome = "noEndpoint"
       THEN /\ steps' = Append(steps, "endpoint")
            /\ armEndpoint' = 0
            /\ ArmThrow("EndpointNotConfigured", "factory")
       ELSE /\ steps' = steps \o <<"endpoint", "token">>
            /\ armEndpoint' = 1
            /\ apc' = "f_token_account"
            /\ UNCHANGED aresult
    /\ UNCHANGED <<entry, suppliedId, azureResourceId, credentials, resourceGroup,
                   locatorCalls, locatorResults, tokenRequests, parsedIds, managementClients>>
    /\ UNCHANGED nonArmVars

\* retrieveAzureToken's own retrieveAzureAccount settled
FactoryTokenAccount(found) ==
    /\ apc = "f_token_account"
    /\ IF ~found
       THEN /\ ArmThrow("AccountNotFound", "factory")
            /\ UNCHANGED tokenRequests
       ELSE /\ tokenRequests' = tokenRequests + 1
            /\ apc' = "f_token"
            /\ UNCHANGED aresult
    /\ UNCHANGED <<entry, suppliedId, azureResourceId, armEndpoint, credentials, resourceGroup,
                   steps, locatorCalls, locatorResults, parsedIds, managementClients>>
    /\ UNCHANGED nonArmVars

\* parsedAzureResourceId(azureResourceId) and new ...ManagementClient(credentials,
\* subscriptionId, {baseUri: armEndpoint}), then the return to the caller
FactoryConstruct(id, cred) ==
    /\ steps' = steps \o <<"parse", "construct">>
    /\ parsedIds' = Append(parsedIds, id)
    /\ managementClients' =
           Append(managementClients,
                  [kind |-> ClientKind, credentials |-> cred,
                   subscriptionId |-> parsedAzureResourceId(id).subscriptionId,
                   baseUri |-> armEndpoint])
    /\ IF entry = "retrieveConnectionStringFromArm"
       THEN apc' = "c_client" /\ UNCHANGED aresult
       ELSE apc' = "done" /\ aresult' = ArmReturned("factory")

\* getAccountSecurityToken settled, with a token or without
FactoryToken(tok) ==
    /\ apc = "f_token"
    /\ IF tok = 0
       THEN /\ ArmThrow("TokenAcquisitionFailed", "factory")
            /\ UNCHANGED <<credentials, steps, locatorCalls, parsedIds, managementClients>>
       ELSE /\ credentials' = tok
            /\ IF NeedsLocate(azureResourceId)
               THEN /\ steps' = Append(steps, "locate")
                    /\ locatorCalls' = locatorCalls + 1
                    /\ apc' = "f_locate"
                    /\ UNCHANGED <<parsedIds, managementClients, aresult>>
               ELSE /\ FactoryConstruct(azureResourceId, tok)
                    /\ UNCHANGED locatorCalls
    /\ UNCHANGED <<entry, suppliedId, azureResourceId, armEndpoint, resourceGroup,
                   locatorResults, tokenRequests>>
    /\ UNCHANGED nonArmVars

\* the factory's retrieveResourceInfofromArm settled with result.data[0]
FactoryLocated(row) ==
    /\ apc = "f_locate"
    /\ locatorResults' = Append(locatorResults, row)
    /\ IF row = NoRow
       THEN /\ ArmThrow("AzureResourceNotFound", "factory")
            /\ UNCHANGED <<azureResourceId, steps, parsedIds, managementClients>>
       ELSE /\ azureResourceId' = row
            /\ FactoryConstruct(row, credentials)
    /\ UNCHANGED <<entry, suppliedId, armEndpoint, credentials, resourceGroup,
                   locatorCalls, tokenRequests>>
    /\ UNCHANGED nonArmVars

\* retrieveResourceId returns id: to its caller, or into retrieveConnectionStringFromArm,
\* which parses the resource group out of it and awaits listConnectionStrings
ResourceIdReturn(id) ==
    /\ azureResourceId' = id
    /\ IF entry = "retrieveResourceId"
       THEN /\ apc' = "done"
            /\ aresult' = ArmReturned("retrieveResourceId")
            /\ UNCHANGED <<parsedIds, resourceGroup>>
       ELSE /\ parsedIds' = Append(parsedIds, id)
            /\ resourceGroup' = parsedAzureResourceId(id).resourceGroup
            /\ apc' = "listing"
            /\ UNCHANGED aresult

\* retrieveResourceId is called with the caller's azureResourceId: directly, or by
\* retrieveConnectionStringFromArm once createArmClient has returned
ResourceIdStart ==
    /\ \/ apc = "start" /\ entry = "retrieveResourceId"
       \/ apc = "c_client"
    /\ IF NeedsLocate(suppliedId)
       THEN /\ azureResourceId' = suppliedId
            /\ apc' = "r_token_account"
            /\ UNCHANGED <<parsedIds, resourceGroup, aresult>>
       ELSE ResourceIdReturn(suppliedId)
    /\ UNCHANGED <<entry, suppliedId, armEndpoint, credentials, steps, locatorCalls,
                   locatorResults, tokenRequests, managementClients>>
    /\ UNCHANGED nonArmVars

\* retrieveAzureToken's retrieveAzureAccount settled
ResourceIdTokenAccount(found) ==
    /\ apc = "r_token_account"
    /\ IF ~found
       THEN /\ ArmThrow("AccountNotFound", "retrieveResourceId")
            /\ UNCHANGED tokenRequests
       ELSE /\ tokenRequests' = tokenRequests + 1
            /\ apc' = "r_token"
            /\ UNCHANGED aresult
    /\ UNCHANGED <<entry, suppliedId, azureResourceId, armEndpoint, credentials, resourceGroup,
                   steps, locatorCalls, locatorResults, parsedIds, managementClients>>
    /\ UNCHANGED nonArmVars

\* getAccountSecurityToken settled; with a token the resource graph is queried
ResourceIdToken(tok) ==
    /\ apc = "r_token"
    /\ IF tok = 0
       THEN /\ ArmThrow("TokenAcquisitionFailed", "retrieveResourceId")
            /\ UNCHANGED <<credentials, locatorCalls>>
       ELSE /\ credentials' = tok
            /\ locatorCalls' = locatorCalls + 1
            /\ apc' = "r_locate"
            /\ UNCHANGED aresult
    /\ UNCHANGED <<entry, suppliedId, azureResourceId, armEndpoint, resourceGroup, steps,
                   locatorResults, tokenRequests, parsedIds, managementClients>>
    /\ UNCHANGED nonArmVars

\* retrieveResourceId's retrieveResourceInfofromArm settled with result.data[0]
ResourceIdLocated(row) ==
    /\ apc = "r_locate"
    /\ locatorResults' = Append(locatorResults, row)
    /\ IF row = NoRow
       THEN /\ ArmThrow("AzureResourceNotFound", "retrieveResourceId")
            /\ UNCHANGED <<azureResourceId, parsedIds, resourceGroup>>
       ELSE ResourceIdReturn(row)
    /\ UNCHANGED <<entry, suppliedId, armEndpoint, credentials, steps, locatorCalls,
                   tokenRequests, managementClients>>
    /\ UNCHANGED nonArmVars

NextArm ==
    \/ FactoryStart
    \/ \E outcome \in {"none", "noEndpoint", "account"} : FactoryAccount(outcome)
    \/ \E found \in BOOLEAN : FactoryTokenAccount(found)
    \/ \E tok \in {0, 1} : FactoryToken(tok)
    \/ \E row \in LocatorRows : FactoryLocated(row)
    \/ ResourceIdStart
    \/ \E found \in BOOLEAN : ResourceIdTokenAccount(found)
    \/ \E tok \in {0, 1} : ResourceIdToken(tok)
    \/ \E row \in LocatorRows : ResourceIdLocated(row)

(* -------------- createMongoCollection and getMongoShellOptions --------- *)

Versions == {"appContext", "older"}
\* the older AppContext has no getMongoShellOptions
Ops(v) == IF v = "appContext" THEN {"createMongoCollection", "getMongoShellOptions"}
          ELSE {"createMongoCollection"}
Infos == [server : Servers, authenticationType : {"AzureMFA", "SqlLogin"}]
NoInfo == [server |-> "none", authenticationType |-> "none"]
\* credentials["password"]: a connection string or undefined
Passwords == ConnectionStrings \cup {"undefined"}
\* what retrieveConnectionStringFromArm throws
RetrievalErrors == {"AccountNotFound", "EndpointNotConfigured", "TokenAcquisitionFailed",
                    "AzureResourceNotFound", "NoConnectionStringsFound",
                    "MissingConnectionString"}

NoOrchResult == [kind |-> "none", error |-> "none"]
Resolved == [kind |-> "resolved", error |-> "none"]
Rejected(e) == [kind |-> "rejected", error |-> e]

\* no call has been made on this AppContext
OrchIdle ==
    /\ version = "appContext" /\ op = "none" /\ info = NoInfo /\ opc = "idle"
    /\ mongoClientLocal = Undefined /\ oresult = NoOrchResult
    /\ credentialLookups = 0 /\ retrievals = 0 /\ connectCalls = 0
    /\ registryAtCall = [s \in Servers |-> Undefined]
    /\ cachedClient = Undefined /\ originError = "none"

\* an AppContext of either version, no call made yet
OrchReady ==
    /\ version \in Versions /\ op = "none" /\ info = NoInfo /\ opc = "idle"
    /\ mongoClientLocal = Undefined /\ oresult = NoOrchResult
    /\ credentialLookups = 0 /\ retrievals = 0 /\ connectCalls = 0
    /\ registryAtCall = [s \in Servers |-> Undefined]
    /\ cachedClient = Undefined /\ originError = "none"

\* the method is called; it awaits its prompts (connection profile, names)
OrchCall(o, i) ==
    /\ opc \in {"idle", "done"}
    /\ o \in Ops(version)
    /\ op' = o
    /\ info' = i
    /\ opc' = "prompting"
    /\ mongoClientLocal' = Undefined
    /\ oresult' = NoOrchResult
    /\ credentialLookups' = 0 /\ retrievals' = 0 /\ connectCalls' = 0
    /\ registryAtCall' = _mongoClients
    /\ cachedClient' = Undefined
    /\ originError' = "none"
    /\ UNCHANGED <<version, registryVars, nonOrchVars>>

\* the task whose connect / disconnect calls are the ones this call makes
OrchTask == 1

\* resolve(...) or reject(...): a promise that has settled stays as it is
Settle(r) == oresult' = IF oresult.kind = "none" THEN r ELSE oresult

\* this.connect(s, cs) is called and awaited
CallConnect(s, cs) ==
    /\ pc' = [pc EXCEPT ![OrchTask] = "connecting"]
    /\ server' = [server EXCEPT ![OrchTask] = s]
    /\ connectionString' = [connectionString EXCEPT ![OrchTask] = cs]
    /\ returned' = [returned EXCEPT ![s] = {}]
    /\ UNCHANGED <<_mongoClients, clientState, clientServer, nextClient, client, ret,
                   peerOpened>>
    /\ connectCalls' = connectCalls + 1
    /\ opc' = "connecting"
    /\ disconnected' = Observe(s, FALSE)

\* the prompts settled: something is missing and the call rejects, or the arguments are
\* complete; createMongoCollection then takes the cached client if the map has one
Prompted(ok) ==
    /\ opc = "prompting"
    /\ IF ~ok
       THEN /\ Settle(Rejected("MissingArgument"))
            /\ opc' = "done"
            /\ UNCHANGED <<mongoClientLocal, credentialLookups, cachedClient>>
       ELSE IF op = "createMongoCollection" /\ version = "appContext"
               /\ hasConnection(info.server)
       THEN /\ mongoClientLocal' = _mongoClients[info.server]
            /\ cachedClient' = _mongoClients[info.server]
            /\ opc' = "haveClient"
            /\ UNCHANGED <<oresult, credentialLookups>>
       ELSE /\ cachedClient' = _mongoClients[info.server]
            /\ credentialLookups' = credentialLookups + 1
            /\ opc' = IF version = "older" THEN "getCredentials" ELSE "getConnections"
            /\ UNCHANGED <<oresult, mongoClientLocal>>
    /\ UNCHANGED <<version, op, info, retrievals, connectCalls, registryAtCall, originError>>
    /\ UNCHANGED <<registryVars, nonOrchVars>>

\* azdata.connection.getConnections settled, with or without a connection of the server
Connections(found) ==
    /\ opc = "getConnections"
    /\ IF ~found
       THEN /\ Settle(Rejected("CredentialsNotFound"))
            /\ opc' = "done"
            /\ UNCHANGED credentialLookups
       ELSE /\ credentialLookups' = credentialLookups + 1
            /\ opc' = "getCredentials"
            /\ UNCHANGED oresult
    /\ UNCHANGED <<version, op, info, mongoClientLocal, retrievals, connectCalls,
                   registryAtCall, cachedClient, originError>>
    /\ UNCHANGED <<registryVars, nonOrchVars>>

\* older createMongoCollection: getCredentials settled; reject without return on a
\* missing password, and this.connect all the same
CredentialsOlder(password) ==
    /\ opc = "getCredentials"
    /\ version = "older"
    /\ IF password = "undefined" THEN Settle(Rejected("MissingCredentials"))
       ELSE UNCHANGED oresult
    /\ CallConnect(info.server, password)
    /\ UNCHANGED <<version, op, info, mongoClientLocal, credentialLookups, retrievals,
                   registryAtCall, cachedClient, originError>>
    /\ UNCHANGED nonOrchVars

\* variant: the connection string is retrieved from ARM whatever the authentication type
CredentialsCreateAlwaysFederated(password) ==
    /\ opc = "getCredentials"
    /\ version = "appContext"
    /\ op = "createMongoCollection"
    /\ retrievals' = retrievals + 1
    /\ opc' = "retrieving"
    /\ UNCHANGED <<oresult, connectCalls, registryVars>>
    /\ UNCHANGED <<version, op, info, mongoClientLocal, credentialLookups,
                   registryAtCall, cachedClient, originError>>
    /\ UNCHANGED nonOrchVars

\* createMongoCollection: getCredentials settled
CredentialsCreate(password) ==
    /\ opc = "getCredentials"
    /\ version = "appContext"
    /\ op = "createMongoCollection"
    /\ IF info.authenticationType = "AzureMFA"
       THEN /\ retrievals' = retrievals + 1
            /\ opc' = "retrieving"
            /\ UNCHANGED <<oresult, connectCalls, registryVars>>
       ELSE IF password = "undefined"
       THEN /\ Settle(Rejected("ConnectionStringNotFound"))
            /\ opc' = "done"
            /\ UNCHANGED <<retrievals, connectCalls, registryVars>>
       ELSE /\ CallConnect(info.server, password)
            /\ UNCHANGED <<oresult, retrievals>>
    /\ UNCHANGED <<version, op, info, mongoClientLocal, credentialLookups,
                   registryAtCall, cachedClient, originError>>
    /\ UNCHANGED nonOrchVars

\* getMongoShellOptions: getCredentials settled
CredentialsShell(password) ==
    /\ opc = "getCredentials"
    /\ op = "getMongoShellOptions"
    /\ IF info.authenticationType = "AzureMFA"
       THEN /\ retrievals' = retrievals + 1
            /\ opc' = "retrieving"
            /\ UNCHANGED oresult
       ELSE /\ Settle(IF password = "undefined" THEN Rejected("ConnectionStringNotFound")
                      ELSE Resolved)
            /\ opc' = "done"
            /\ UNCHANGED retrievals
    /\ UNCHANGED <<version, op, info, mongoClientLocal, credentialLookups, connectCalls,
                   registryAtCall, cachedClient, originError>>
    /\ UNCHANGED <<registryVars, nonOrchVars>>

\* createMongoCollection: retrieveConnectionStringFromArm settled; catch (e) { reject(e);
\* return; }, or this.connect with the string it returned
RetrievedCreate(outcome) ==
    /\ opc = "retrieving"
    /\ op = "createMongoCollection"
    /\ IF outcome \in RetrievalErrors
       THEN /\ originError' = outcome
            /\ Settle(Rejected(outcome))
            /\ opc' = "done"
            /\ UNCHANGED <<connectCalls, registryVars>>
       ELSE /\ CallConnect(info.server, outcome)
            /\ UNCHANGED <<oresult, originError>>
    /\ UNCHANGED <<version, op, info, mongoClientLocal, credentialLookups, retrievals,
                   registryAtCall, cachedClient>>
    /\ UNCHANGED nonOrchVars

\* getMongoShellOptions: retrieveConnectionStringFromArm settled; catch (e) {
\* showErrorMessage; return false; } leaves the promise unsettled
RetrievedShell(outcome) ==
    /\ opc = "retrieving"
    /\ op = "getMongoShellOptions"
    /\ IF outcome \in RetrievalErrors
       THEN /\ originError' = outcome
            /\ UNCHANGED oresult
       ELSE /\ Settle(Resolved)
            /\ UNCHANGED originError
    /\ opc' = "done"
    /\ UNCHANGED <<version, op, info, mongoClientLocal, credentialLookups, retrievals,
                   connectCalls, registryAtCall, cachedClient>>
    /\ UNCHANGED <<registryVars, nonOrchVars>>

\* this.connect returned: a client, or undefined and the call rejects
AfterConnect ==
    /\ opc = "connecting"
    /\ pc[OrchTask] = "idle"
    /\ mongoClientLocal' = ret.val
    /\ IF ret.val # Undefined
       THEN /\ opc' = "haveClient"
            /\ UNCHANGED oresult
       ELSE /\ Settle(Rejected("ConnectionFailed"))
            /\ opc' = "done"
    /\ UNCHANGED <<version, op, info, credentialLookups, retrievals, connectCalls,
                   registryAtCall, cachedClient, originError>>
    /\ UNCHANGED <<registryVars, nonOrchVars>>

\* createCollection on the client settled and the call resolves
UseClient ==
    /\ opc = "haveClient"
    /\ Settle(Resolved)
    /\ opc' = "done"
    /\ UNCHANGED <<version, op, info, mongoClientLocal, credentialLookups, retrievals,
                   connectCalls, registryAtCall, cachedClient, originError>>
    /\ UNCHANGED <<registryVars, nonOrchVars>>

NextOrchestrator ==
    \/ \E o \in {"createMongoCollection", "getMongoShellOptions"} : \E i \in Infos :
           OrchCall(o, i)
    \/ \E ok \in BOOLEAN : Prompted(ok)
    \/ \E found \in BOOLEAN : Connections(found)
    \/ \E password \in Passwords : CredentialsOlder(password)
    \/ \E password \in Passwords : CredentialsCreate(password)
    \/ \E password \in Passwords : CredentialsShell(password)
    \/ \E outcome \in RetrievalErrors \cup ConnectionStrings : RetrievedCreate(outcome)
    \/ \E outcome \in RetrievalErrors \cup ConnectionStrings : RetrievedShell(outcome)
    \/ \E t \in Tasks : ConnectResolve(t)
    \/ \E t \in Tasks : ConnectReject(t)
    \/ AfterConnect
    \/ UseClient

(* ------- retrieveAzureAccount, retrieveAzureToken, retrievePortalEndpoint ------ *)

AccountIds == {"x", "y"}
\* a registered account: its key.accountId and whether its settings have a portalEndpoint
\* (0 absent, 1 an endpoint)
Accounts == [accountId : AccountIds, portalEndpoint : {0, 1}]
AccountLists == UNION {[1..n -> Accounts] : n \in 0..MaxAccounts}
CredCalls == {"retrieveAzureAccount", "retrieveAzureToken", "retrievePortalEndpoint"}

NoCredResult == [kind |-> "none", error |-> "none", value |-> 0]
CredReturned(v) == [kind |-> "returned", error |-> "none", value |-> v]
CredThrew(e) == [kind |-> "threw", error |-> e, value |-> 0]

\* none of these functions is running
CredIdle ==
    /\ accounts = <<>> /\ accountId = "none" /\ call = "none" /\ cpc = "idle"
    /\ azureAccount = 0 /\ tokenExchanges = 0 /\ azureToken = "none"
    /\ cresult = NoCredResult

\* one of them was called and awaits getAllAccounts
CredCalled ==
    /\ accounts \in AccountLists /\ accountId \in AccountIds /\ call \in CredCalls
    /\ cpc = "getAllAccounts"
    /\ azureAccount = 0 /\ tokenExchanges = 0 /\ azureToken = "none"
    /\ cresult = NoCredResult

\* variant: the accounts kept, the last of the listing first
MatchingAccountsReversed(list, id) ==
    LET kept == SelectSeq([i \in 1..Len(list) |-> i], LAMBDA i : list[i].accountId = id)
    IN  [k \in 1..Len(kept) |-> kept[Len(kept) + 1 - k]]

\* (await getAllAccounts()).filter((a) => a.key.accountId === accountId): the positions
\* of the accounts kept, in the order of the listing
MatchingAccounts(list, id) ==
    SelectSeq([i \in 1..Len(list) |-> i], LAMBDA i : list[i].accountId = id)

\* getAllAccounts resolves: retrieveAzureAccount throws "No azure account found" or
\* returns accounts[0] to its caller, which runs on to its next await or to its return
\* (a returned value is the position of the account, the portalEndpoint read from it
\* with 0 for undefined, or 1 for a token)
AccountsListed ==
    /\ cpc = "getAllAccounts"
    /\ LET found == MatchingAccounts(accounts, accountId)
       IN  IF Len(found) < 1
           THEN /\ cresult' = CredThrew("AccountNotFound")
                /\ cpc' = "done"
                /\ UNCHANGED <<azureAccount, tokenExchanges>>
           ELSE /\ azureAccount' = found[1]
                /\ CASE call = "retrieveAzureAccount" ->
                            /\ cresult' = CredReturned(found[1])
                            /\ cpc' = "done"
                            /\ UNCHANGED tokenExchanges
                     [] call = "retrievePortalEndpoint" ->
                            /\ cresult' = CredReturned(accounts[found[1]].portalEndpoint)
                            /\ cpc' = "done"
                            /\ UNCHANGED tokenExchanges
                     [] call = "retrieveAzureToken" ->
                            /\ tokenExchanges' = tokenExchanges + 1
                            /\ cpc' = "getAccountSecurityToken"
                            /\ UNCHANGED cresult
    /\ UNCHANGED <<accounts, accountId, call, azureToken, nonCredVars>>

\* getAccountSecurityToken resolves and the token is returned whatever it is
TokenSettledUnchecked(tok) ==
    /\ cpc = "getAccountSecurityToken"
    /\ azureToken' = tok
    /\ cresult' = CredReturned(1)
    /\ cpc' = "done"
    /\ UNCHANGED <<accounts, accountId, call, azureAccount, tokenExchanges, nonCredVars>>

\* getAccountSecurityToken resolves: if (!azureToken) throw "Unable to retrieve ARM token"
TokenSettled(tok) ==
    /\ cpc = "getAccountSecurityToken"
    /\ azureToken' = tok
    /\ cresult' = IF tok = "undefined" THEN CredThrew("TokenAcquisitionFailed")
                                       ELSE CredReturned(1)
    /\ cpc' = "done"
    /\ UNCHANGED <<accounts, accountId, call, azureAccount, tokenExchanges, nonCredVars>>

NextCredentials ==
    \/ AccountsListed
    \/ \E tok \in {"undefined", "token"} : TokenSettled(tok)

(* ------ retrieveMongoDbDatabasesInfoFromArm, retrieveMongoDbCollectionsInfoFromArm ----- *)

NoFanResult == [kind |-> "none", infos |-> <<>>, error |-> "none"]

\* no aggregate call is running
FanIdle ==
    /\ fkind = "none" /\ resources = <<>> /\ fpc = "idle" /\ items = <<>>
    /\ ipc = <<>> /\ iinfo = <<>> /\ ifailed = <<>> /\ fres = NoFanResult

FanResolved(infos) == [kind |-> "resolved", infos |-> infos, error |-> "none"]
FanRejected(e) == [kind |-> "rejected", infos |-> <<>>, error |-> e]

\* what listMongoDBDatabases / listMongoDBCollections may resolve to: per resource,
\* whether it has a name
ResourceLists == UNION {[1..n -> BOOLEAN] : n \in 0..MaxResources}

\* the aggregate call has its management client and resource id and awaits the listing
FanCalled ==
    /\ fkind \in {"databases", "collections"} /\ resources = <<>> /\ fpc = "list"
    /\ items = <<>> /\ ipc = <<>> /\ iinfo = <<>> /\ ifailed = <<>> /\ fres = NoFanResult

\* .filter((resource) => !!resource.name): the positions kept, in the order of the listing
NamedResources(list) == SelectSeq([i \in 1..Len(list) |-> i], LAMBDA i : list[i])

\* the first await of a per-item retrieval
FirstAwait == IF fkind = "databases" THEN "listMongoDBCollections" ELSE "getThroughput"

\* the locals of a per-item retrieval when it starts: name is the position of the
\* resource in the listing; documentCount is a local of the collection retrieval only
NewItemInfo(n) ==
    [name |-> n, throughputSetting |-> "", usageSizeKB |-> "unset",
     documentCount |-> "undefined"]

\* Promise.all(promises) as seen by the awaiting aggregate: it stays settled once settled,
\* rejects with the first rejection and resolves with the values in the order of the
\* promises when all of them are fulfilled
PromiseAll(positions, values, e) ==
    IF fres.kind # "none" THEN fres
    ELSE IF \E i \in 1..Len(positions) : positions[i] = "rejected" THEN FanRejected(e)
    ELSE IF \A i \in 1..Len(positions) : positions[i] = "fulfilled" THEN FanResolved(values)
    ELSE fres

\* the listing rejects and so does the aggregate
ListFails ==
    /\ fpc = "list"
    /\ fres' = FanRejected("ListFailed")
    /\ fpc' = "done"
    /\ UNCHANGED <<fkind, resources, items, ipc, iinfo, ifailed, nonFanVars>>

\* the listing resolves; createArmMonitorClient is called
ResourcesListed(list) ==
    /\ fpc = "list"
    /\ resources' = list
    /\ fpc' = "createArmMonitorClient"
    /\ UNCHANGED <<fkind, items, ipc, iinfo, ifailed, fres, nonFanVars>>

\* createArmMonitorClient settles: its failure rejects the aggregate; otherwise one
\* retrieval per named resource is started, each running to its first await, and the
\* aggregate awaits Promise.all of them
MonitorClientSettled(ok) ==
    /\ fpc = "createArmMonitorClient"
    /\ IF ~ok
       THEN /\ fres' = FanRejected("MonitorClientFailed")
            /\ fpc' = "done"
            /\ UNCHANGED <<items, ipc, iinfo, ifailed>>
       ELSE LET named == NamedResources(resources)
            IN  /\ items' = named
                /\ ipc' = [i \in 1..Len(named) |-> FirstAwait]
                /\ iinfo' = [i \in 1..Len(named) |-> NewItemInfo(named[i])]
                /\ ifailed' = [i \in 1..Len(named) |-> {}]
                /\ fres' = PromiseAll(ipc', iinfo', "none")
                /\ fpc' = "Promise.all"
    /\ UNCHANGED <<fkind, resources, nonFanVars>>

\* retrieveMongoDbDatabaseInfoFromArm: listMongoDBCollections settles; it is awaited
\* outside any try, so its failure rejects the retrieval
ItemCollections(i, ok) ==
    /\ ipc[i] = "listMongoDBCollections"
    /\ IF ok
       THEN /\ ipc' = [ipc EXCEPT ![i] = "getThroughput"]
            /\ UNCHANGED ifailed
       ELSE /\ ipc' = [ipc EXCEPT ![i] = "rejected"]
            /\ ifailed' = [ifailed EXCEPT ![i] = @ \cup {"listMongoDBCollections"}]
    /\ fres' = PromiseAll(ipc', iinfo, "ListCollectionsFailed")
    /\ UNCHANGED <<fkind, resources, fpc, items, iinfo, nonFanVars>>

\* variant: the failure of the throughput lookup rejects the retrieval
ItemThroughputRethrows(i, outcome) ==
    /\ ipc[i] = "getThroughput"
    /\ iinfo' = [iinfo EXCEPT ![i].throughputSetting =
                     IF outcome = "resource" THEN "setting" ELSE ""]
    /\ ifailed' = [ifailed EXCEPT ![i] = IF outcome = "fails" THEN @ \cup {"getThroughput"}
                                                              ELSE @]
    /\ ipc' = [ipc EXCEPT ![i] = IF outcome = "fails" THEN "rejected" ELSE "getUsageSizeInKB"]
    /\ fres' = PromiseAll(ipc', iinfo', "ThroughputFailed")
    /\ UNCHANGED <<fkind, resources, fpc, items, nonFanVars>>

\* getMongoDBDatabaseThroughput / getMongoDBCollectionThroughput settles inside
\* try { ... } catch (e) { }: with a resource the setting is its string, without one or
\* on failure throughputSetting stays ""; getUsageSizeInKB is called next
ItemThroughput(i, outcome) ==
    /\ ipc[i] = "getThroughput"
    /\ iinfo' = [iinfo EXCEPT ![i].throughputSetting =
                     IF outcome = "resource" THEN "setting" ELSE ""]
    /\ ifailed' = [ifailed EXCEPT ![i] = IF outcome = "fails" THEN @ \cup {"getThroughput"}
                                                              ELSE @]
    /\ ipc' = [ipc EXCEPT ![i] = "getUsageSizeInKB"]
    /\ UNCHANGED <<fkind, resources, fpc, items, fres, nonFanVars>>

\* getUsageSizeInKB settles: it resolves to a size or rejects; it is awaited outside any
\* try. The database retrieval then returns its info; the collection retrieval calls
\* metrics.list for DocumentCount
ItemUsage(i, ok) ==
    /\ ipc[i] = "getUsageSizeInKB"
    /\ IF ok
       THEN /\ iinfo' = [iinfo EXCEPT ![i].usageSizeKB = "size"]
            /\ ipc' = [ipc EXCEPT ![i] = IF fkind = "databases" THEN "fulfilled"
                                                                ELSE "metrics.list"]
            /\ UNCHANGED ifailed
       ELSE /\ ipc' = [ipc EXCEPT ![i] = "rejected"]
            /\ ifailed' = [ifailed EXCEPT ![i] = @ \cup {"getUsageSizeInKB"}]
            /\ UNCHANGED iinfo
    /\ fres' = PromiseAll(ipc', iinfo', "UsageSizeFailed")
    /\ UNCHANGED <<fkind, resources, fpc, items, nonFanVars>>

\* retrieveMongoDbCollectionInfoFromArm: metrics.list for DocumentCount settles inside
\* try { ... } catch (e) { console.error(e) }: on failure documentCount stays undefined;
\* the retrieval returns its info either way
ItemDocumentCount(i, ok) ==
    /\ ipc[i] = "metrics.list"
    /\ IF ok
       THEN /\ iinfo' = [iinfo EXCEPT ![i].documentCount = "total"]
            /\ UNCHANGED ifailed
       ELSE /\ ifailed' = [ifailed EXCEPT ![i] = @ \cup {"metrics.list"}]
            /\ UNCHANGED iinfo
    /\ ipc' = [ipc EXCEPT ![i] = "fulfilled"]
    /\ fres' = PromiseAll(ipc', iinfo', "none")
    /\ UNCHANGED <<fkind, resources, fpc, items, nonFanVars>>

NextFanOut ==
    \/ ListFails
    \/ \E list \in ResourceLists : ResourcesListed(list)
    \/ \E ok \in BOOLEAN : MonitorClientSettled(ok)
    \/ \E i \in 1..Len(items), ok \in BOOLEAN : ItemCollections(i, ok)
    \/ \E i \in 1..Len(items), outcome \in {"fails", "noResource", "resource"} :
           ItemThroughput(i, outcome)
    \/ \E i \in 1..Len(items), ok \in BOOLEAN : ItemUsage(i, ok)
    \/ \E i \in 1..Len(items), ok \in BOOLEAN : ItemDocumentCount(i, ok)

InitRegistry == NewAppContext /\ SelectorIdle /\ ParserIdle /\ ArmIdle /\ OrchIdle /\ CredIdle /\ FanIdle
InitSelector == NewAppContext /\ SelectorListing /\ ParserIdle /\ ArmIdle /\ OrchIdle /\ CredIdle /\ FanIdle
InitParser == NewAppContext /\ SelectorIdle /\ ParserReady /\ ArmIdle /\ OrchIdle /\ CredIdle /\ FanIdle
InitArm == NewAppContext /\ SelectorIdle /\ ParserIdle /\ ArmCalled /\ OrchIdle /\ CredIdle /\ FanIdle
InitOrchestrator == NewAppContext /\ SelectorIdle /\ ParserIdle /\ ArmIdle /\ OrchReady /\ CredIdle /\ FanIdle
(* -------------- retrieveConnectionStringFromArm from call to return -------------- *)

\* client.databaseAccounts.listConnectionStrings(resourceGroup, cosmosDbAccountName)
\* settles: its rejection ends the run; its response goes to the selection of the
\* connection string (appContext.ts or AbstractArmService.ts)
ListConnectionStringsSettled(ok) ==
    /\ apc = "listing"
    /\ spc = "idle"
    /\ IF ~ok
       THEN /\ ArmThrow("ListConnectionStringsFailed", "listConnectionStrings")
            /\ UNCHANGED selectorVars
       ELSE /\ apc' = "selecting"
            /\ variant' \in {"appContext", "armService"}
            /\ PICK_MAX_ATTEMPTS' \in PickMaxAttemptsValues
            /\ connectionStrings' \in
                   {<<"absent", <<>> >>} \cup {<<"list", l>> : l \in CandidateLists}
            /\ spc' = "listing"
            /\ UNCHANGED <<connectionStringsPicks, connectionStringPick, attempts, sret,
                           chooserCalls, responses, aresult>>
    /\ UNCHANGED <<entry, suppliedId, azureResourceId, armEndpoint, credentials, resourceGroup,
                   steps, locatorCalls, locatorResults, tokenRequests, parsedIds,
                   managementClients>>
    /\ UNCHANGED <<registryVars, parserVars, orchVars, credVars, fanVars>>

\* the calls that read from ARM: one run of retrieveConnectionStringFromArm, or one
\* aggregate retrieval of database or collection infos
NextArmRetrieval ==
    \/ FactoryStart
    \/ \E outcome \in {"none", "noEndpoint", "account"} : FactoryAccount(outcome)
    \/ \E found \in BOOLEAN : FactoryTokenAccount(found)
    \/ \E tok \in {0, 1} : FactoryToken(tok)
    \/ \E row \in LocatorRows : FactoryLocated(row)
    \/ ResourceIdStart
    \/ \E found \in BOOLEAN : ResourceIdTokenAccount(found)
    \/ \E tok \in {0, 1} : ResourceIdToken(tok)
    \/ \E row \in LocatorRows : ResourceIdLocated(row)
    \/ \E ok \in BOOLEAN : ListConnectionStringsSettled(ok)
    \/ ListedAppContext
    \/ ListedArmService
    \/ Prompt
    \/ \E choice \in 0..Len(connectionStringsPicks) : Picked(choice)
    \/ AfterLoop
    \/ ListFails
    \/ \E list \in ResourceLists : ResourcesListed(list)
    \/ \E ok \in BOOLEAN : MonitorClientSettled(ok)
    \/ \E i \in 1..Len(items), ok \in BOOLEAN : ItemCollections(i, ok)
    \/ \E i \in 1..Len(items), outcome \in {"fails", "noResource", "resource"} :
           ItemThroughput(i, outcome)
    \/ \E i \in 1..Len(items), ok \in BOOLEAN : ItemUsage(i, ok)
    \/ \E i \in 1..Len(items), ok \in BOOLEAN : ItemDocumentCount(i, ok)

InitArmRetrieval ==
    /\ NewAppContext /\ SelectorIdle /\ ParserIdle /\ OrchIdle /\ CredIdle
    /\ \/ ArmCalled /\ entry = "retrieveConnectionStringFromArm" /\ FanIdle
       \/ ArmIdle /\ FanCalled
InitFanOut == NewAppContext /\ SelectorIdle /\ ParserIdle /\ ArmIdle /\ OrchIdle /\ CredIdle /\ FanCalled
InitRegistryObserved == NewAppContextObserved /\ SelectorIdle /\ ParserIdle /\ ArmIdle /\ OrchIdle /\ CredIdle /\ FanIdle
InitCredentials == NewAppContext /\ SelectorIdle /\ ParserIdle /\ ArmIdle /\ OrchIdle /\ CredCalled /\ FanIdle

\* concurrent calls of connect and disconnect on one AppContext
SpecRegistry == InitRegistry /\ [][NextRegistry]_vars
\* one run of retrieveConnectionStringFromArm from the listConnectionStrings response on
SpecSelector == InitSelector /\ [][NextSelector]_vars
\* concurrent calls of every AppContext method that reads or changes the map
SpecLifecycle == InitRegistry /\ [][NextLifecycle]_vars
\* the same run under the event loop's scheduling: a step that can be taken is taken,
\* and every awaited call (listConnectionStrings, showQuickPick) settles
SpecSelectorLive == InitSelector /\ [][NextSelector]_vars /\ WF_vars(NextSelector)
\* one call of parsedAzureResourceId
SpecParser == InitParser /\ [][NextParser]_vars
\* one call of createArmClient, createArmMonitorClient, retrieveResourceId or
\* retrieveConnectionStringFromArm, up to its listConnectionStrings request
SpecArm == InitArm /\ [][NextArm]_vars
\* calls of createMongoCollection and getMongoShellOptions on one AppContext, one after
\* the other
SpecFanOut == InitFanOut /\ [][NextFanOut]_vars
SpecArmRetrieval == InitArmRetrieval /\ [][NextArmRetrieval]_vars
SpecRegistryObserved == InitRegistryObserved /\ [][NextRegistry]_vars
SpecCredentials == InitCredentials /\ [][NextCredentials]_vars
SpecOrchestrator == InitOrchestrator /\ [][NextOrchestrator]_vars
\* every awaited call of the collaborators settles, so a step that can be taken is taken
SpecOrchestratorLive ==
    InitOrchestrator /\ [][NextOrchestrator]_vars /\ WF_vars(NextOrchestrator)

(* ============================ properties ============================== *)

\* C1: after connect(id, s) succeeded and returned c, hasConnection(id) is true and the
\* entry of id is exactly c in every later state, until disconnect(id) or another
\* connect(id, ...) is called.
C1_EntryIsReturnedConnection ==
    \A s \in Servers : \A c \in returned[s] : hasConnection(s) /\ _mongoClients[s] = c

\* C2: when the data-plane open fails, connect does not throw, returns undefined and
\* leaves the registry as it was: neither the call nor its failure changes any entry.
C2_FailedOpenReturnsUndefined ==
    [][\A t \in Tasks :
          /\ (pc[t] = "idle" /\ pc'[t] = "connecting") => _mongoClients' = _mongoClients
          /\ (pc[t] = "connecting" /\ pc'[t] = "idle" /\ nextClient' = nextClient) =>
                /\ ret'.op = "connect" /\ ret'.server = server[t]
                /\ ret'.kind = "returned" /\ ret'.val = Undefined
                /\ _mongoClients' = _mongoClients]_vars

C2_Witness ==
    /\ ret.op = "connect" /\ ret.kind = "returned" /\ ret.val = Undefined
    /\ ~hasConnection(ret.server)

\* C3: of two connect calls on one server whose executions overlap, the later one to
\* finish reuses the connection the other opened: no second connection is opened.
C3_OverlappingConnectsOpenOnce ==
    [][\A t \in Tasks :
          (pc[t] = "connecting" /\ pc'[t] = "idle" /\ ret'.val # Undefined) =>
              peerOpened[t] \subseteq {ret'.val}]_vars

\* C4: every connection that was opened and is not the registry's entry of its server
\* has been closed (close() was called on it).
C4_NoConnectionLeak ==
    \A c \in Conns : clientState[c] = "open" => _mongoClients[clientServer[c]] = c

\* C5: disconnect(id) on a present key removes the entry and closes its connection, and
\* in every state, also between the steps of disconnect, no entry refers to a connection
\* on which close() was called.
C5_NoEntryOfClosedConnection ==
    /\ [](\A s \in Servers : hasConnection(s) => clientState[_mongoClients[s]] = "open")
    /\ [][\A t \in Tasks, s \in Servers :
             (disconnect(t, s) /\ hasConnection(s)) =>
                 /\ _mongoClients'[s] = Undefined
                 /\ clientState'[_mongoClients[s]] = "closing"]_vars

C5_Witness ==
    \E t \in Tasks :
        /\ pc[t] = "closing"
        /\ clientState[client[t]] = "closing"
        /\ ~hasConnection(server[t])

\* C6: disconnect(id) on a key with no entry resolves without error, closes no
\* connection and leaves the whole registry unchanged.
C6_DisconnectAbsentIsNoOp ==
    [][\A t \in Tasks, s \in Servers :
          (disconnect(t, s) /\ ~hasConnection(s)) =>
              /\ ret'.op = "disconnect" /\ ret'.server = s /\ ret'.kind = "resolved"
              /\ _mongoClients' = _mongoClients
              /\ clientState' = clientState
              /\ pc'[t] = "idle"]_vars

C6_Witness ==
    /\ ret.op = "disconnect" /\ ret.kind = "resolved"
    /\ nextClient = 1

\* C7: a step of connect(a, ...) or disconnect(a), in flight or not, leaves the entry of
\* every other key b and the state of every connection opened for b unchanged.
C7_OtherKeysUntouched ==
    [][\A t \in Tasks, a \in Servers :
          LET StepOn ==
                  \/ \E cs \in ConnectionStrings : ConnectStart(t, a, cs)
                  \/ disconnect(t, a)
                  \/ server[t] = a /\ (ConnectResolve(t) \/ ConnectReject(t) \/ CloseResolve(t))
          IN StepOn =>
                 \A b \in Servers \ {a} :
                     /\ _mongoClients'[b] = _mongoClients[b]
                     /\ \A c \in Conns :
                            clientServer[c] = b => /\ clientState'[c] = clientState[c]
                                                   /\ clientServer'[c] = b]_vars

C7_Witness ==
    /\ hasConnection("b")
    /\ ~hasConnection("a")
    /\ \E c \in Conns : clientServer[c] = "a" /\ clientState[c] = "closed"
    /\ \E t \in Tasks : pc[t] = "connecting" /\ server[t] = "a"

\* C8: with exactly one candidate the selector returns that candidate's connection
\* string and showQuickPick is never invoked.
C8_SingleCandidateNotPrompted ==
    (/\ ~ListAbsent
     /\ Len(TheList) = 1
     /\ TheList[1].connectionString # 0) =>
        /\ chooserCalls = 0
        /\ spc = "done" => sret = Returned(TheList[1].connectionString)

\* C9: with more than one candidate showQuickPick is invoked at most PICK_MAX_ATTEMPTS
\* times, and a run in which every invocation returned no selection throws the
\* MissingConnectionString error.
C9_BoundedPrompts ==
    (variant = "appContext" /\ ~ListAbsent /\ Len(TheList) > 1) =>
        /\ chooserCalls <= PICK_MAX_ATTEMPTS
        /\ (spc = "done" /\ \A i \in 1..Len(responses) : responses[i] = 0) =>
               sret = Threw("MissingConnectionString")

C9_Witness ==
    /\ variant = "appContext" /\ ~ListAbsent /\ Len(TheList) > 1
    /\ PICK_MAX_ATTEMPTS = 3
    /\ spc = "done"
    /\ responses = <<0, 0, 0>>
    /\ sret = Threw("MissingConnectionString")

\* the chooser returned nothing on attempts 1..k-1 and pick c on attempt k
ChoseOnAttempt(k, c) ==
    /\ Len(responses) = k
    /\ \A i \in 1..(k - 1) : responses[i] = 0
    /\ responses[k] = c

\* C10 as stated: after k-1 dismissals and the choice of c on attempt k, the selector
\* has prompted exactly k times and returns c's connection string.
C10_ReturnsChosenString ==
    \A k \in 1..PICK_MAX_ATTEMPTS : \A c \in 1..Len(connectionStringsPicks) :
        (variant = "appContext" /\ spc = "done" /\ ChoseOnAttempt(k, c)) =>
            /\ chooserCalls = k
            /\ sret = Returned(TheList[c].connectionString)

\* C10 amended: after k-1 dismissals and the choice of c on attempt k, the selector has
\* prompted exactly k times; it returns c's connection string when c has one, and throws
\* MissingConnectionString when c's connection string is absent.
C10_ReturnsChosenStringIfPresent ==
    \A k \in 1..PICK_MAX_ATTEMPTS : \A c \in 1..Len(connectionStringsPicks) :
        (variant = "appContext" /\ spc = "done" /\ ChoseOnAttempt(k, c)) =>
            /\ chooserCalls = k
            /\ sret = IF TheList[c].connectionString # 0
                      THEN Returned(TheList[c].connectionString)
                      ELSE Threw("MissingConnectionString")

C10_Witness ==
    /\ variant = "appContext" /\ spc = "done"
    /\ ChoseOnAttempt(3, 2)
    /\ Len(TheList) = 3
    /\ TheList[2].connectionString # 0
    /\ TheList[1].connectionString # TheList[2].connectionString
    /\ sret = Returned(TheList[2].connectionString)

\* C11: the selector never hangs on the chooser. When every showQuickPick invocation
\* and every remote call settles, each run ends with a connection string or with an
\* error, also when the chooser is dismissed on every invocation.
C11_SelectorTerminates ==
    <>(spc = "done" /\ sret.kind \in {"returned", "threw"})

C11_Witness ==
    /\ variant = "appContext" /\ ~ListAbsent /\ Len(TheList) >= 1
    /\ PICK_MAX_ATTEMPTS >= 2
    /\ chooserCalls = PICK_MAX_ATTEMPTS
    /\ \A i \in 1..Len(responses) : responses[i] = 0
    /\ spc = "done"
    /\ sret.kind = "threw"

\* C12: when the list of connection strings is absent or empty, the selector fails
\* with NoConnectionStringsFound and no other kind of error, and the chooser is not
\* invoked.
C12_NoCandidatesIsNoConnectionStringsFound ==
    (spc = "done" /\ (ListAbsent \/ Len(TheList) = 0)) =>
        /\ sret = Threw("NoConnectionStringsFound")
        /\ chooserCalls = 0

\* the candidate the selector resolved to: the chosen one in appContext.ts, the first
\* one where there is no chooser
HasResolvedCandidate ==
    IF variant = "appContext" THEN connectionStringPick # 0
    ELSE ~ListAbsent /\ Len(TheList) >= 1

ResolvedCandidate ==
    IF variant = "appContext" THEN TheList[connectionStringPick] ELSE TheList[1]

\* C13: when the resolved candidate (chosen or first) has an absent or empty
\* connectionString, the selector fails with MissingConnectionString; it never returns
\* an absent value.
C13_MissingStringIsAnError ==
    spc = "done" =>
        /\ (HasResolvedCandidate /\ ResolvedCandidate.connectionString = 0) =>
               sret = Threw("MissingConnectionString")
        /\ sret.kind = "returned" => sret.connectionString # 0

C13_Witness ==
    /\ variant = "appContext"
    /\ spc = "done"
    /\ connectionStringPick = 2
    /\ TheList[1].connectionString # 0
    /\ TheList[2].connectionString = 0
    /\ sret = Threw("MissingConnectionString")

(* ------------------------- properties of the parser -------------------- *)

\* the segments of a path, read off the positions of its slashes
SlashPositions(p) == {i \in 1..Len(p) : p[i] = "/"}
NumSegments(p) == Cardinality(SlashPositions(p)) + 1
\* position of the k-th slash, k >= 1
KthSlash(p, k) ==
    CHOOSE i \in SlashPositions(p) : Cardinality({j \in SlashPositions(p) : j <= i}) = k
\* segment k, 0-based, k < NumSegments(p)
Segment(p, k) ==
    LET first == IF k = 0 THEN 1 ELSE KthSlash(p, k) + 1
        last == IF k + 1 = NumSegments(p) THEN Len(p) ELSE KthSlash(p, k + 1) - 1
    IN SubSeq(p, first, last)

\* C19: for every slash-delimited path of at least 9 segments, the parser returns
\* subscriptionId = segment 2, resourceGroup = segment 4 and accountName = segment 8
\* (0-based).
C19_ParsesSegments248 ==
    (ppc = "done" /\ NumSegments(path) >= 9) =>
        /\ presult.kind = "returned"
        /\ presult.value.subscriptionId = Segment(path, 2)
        /\ presult.value.resourceGroup = Segment(path, 4)
        /\ presult.value.dbAccountName = Segment(path, 8)

C19_Witness ==
    /\ ppc = "done"
    /\ NumSegments(path) = 9
    /\ Segment(path, 2) = <<"x">>
    /\ Segment(path, 8) = <<"x">>
    /\ presult.value.subscriptionId = <<"x">>
    /\ presult.value.dbAccountName = <<"x">>

\* C20: for every path of fewer than 9 segments the parse fails with
\* MalformedResourceId and returns no ResourceIdentity.
C20_ShortPathIsMalformed ==
    (ppc = "done" /\ NumSegments(path) < 9) =>
        /\ presult.kind = "threw"
        /\ presult.value = NoParse.value

(* --------------------- properties of the ARM pipeline ------------------ *)

\* C14: when the caller supplies a non-empty resource id, retrieveResourceInfofromArm is
\* never invoked during retrieveResourceId, createArmClient, createArmMonitorClient or the
\* whole connection-string retrieval, and the supplied id is the one that is parsed.
C14_SuppliedIdBypassesLocator ==
    suppliedId # EmptyId =>
        /\ locatorCalls = 0
        /\ locatorResults = <<>>
        /\ azureResourceId = suppliedId
        /\ \A i \in 1..Len(parsedIds) : parsedIds[i] = suppliedId
        /\ \A i \in 1..Len(managementClients) :
               managementClients[i].subscriptionId = parsedAzureResourceId(suppliedId).subscriptionId

C14_Witness ==
    /\ entry = "retrieveConnectionStringFromArm"
    /\ suppliedId = IdA
    /\ apc = "listing"
    /\ Len(managementClients) = 1
    /\ managementClients[1].subscriptionId = <<"A">>
    /\ parsedIds = <<IdA, IdA>>
    /\ resourceGroup = <<"G">>
    /\ locatorCalls = 0

\* C15: when no resource id is supplied and the resource graph query returns zero rows,
\* the run fails with AzureResourceNotFound and no CosmosDBManagementClient or
\* MonitorManagementClient was constructed earlier in that run.
C15_NotFoundBeforeAnyClient ==
    (suppliedId = EmptyId /\ \E i \in 1..Len(locatorResults) : locatorResults[i] = NoRow) =>
        /\ aresult.kind = "threw"
        /\ aresult.error = "AzureResourceNotFound"
        /\ managementClients = <<>>

IsPrefix(a, b) == Len(a) <= Len(b) /\ SubSeq(b, 1, Len(a)) = a

\* the order of the factory's steps for the id that was supplied
FactoryOrder ==
    <<"account", "endpoint", "token">>
        \o (IF suppliedId = EmptyId THEN <<"locate">> ELSE <<>>)
        \o <<"parse", "construct">>

\* the factory's steps come in order, and a failure stops them, except that a parse of
\* a path of fewer than 9 segments is not counted as a failure
FactoryFailsFastButForParse ==
    entry # "retrieveResourceId" =>
        /\ IsPrefix(steps, FactoryOrder)
        /\ (aresult.kind = "threw" /\ aresult.where = "factory") =>
               /\ managementClients = <<>>
               /\ Len(steps) < Len(FactoryOrder) - 1
        /\ managementClients # <<>> =>
               /\ steps = FactoryOrder
               /\ Len(managementClients) = 1
               /\ managementClients[1].credentials # 0
               /\ managementClients[1].baseUri # 0

C17_FailedStageFailsTheCall ==
    (opc = "done" /\ originError # "none") =>
        /\ oresult = Rejected(originError)
        /\ connectCalls = 0
        /\ _mongoClients = registryAtCall

\* C18: when the registry already holds a connection for the server, createMongoCollection
\* uses the cached connection and performs no credential lookup, no connection-string
\* retrieval and no new open.
C18_CachedConnectionIsReused ==
    (op = "createMongoCollection" /\ cachedClient # Undefined) =>
        /\ credentialLookups = 0
        /\ retrievals = 0
        /\ connectCalls = 0
        /\ opc \in {"haveClient", "done"} => mongoClientLocal = cachedClient

(* ----------------- one run of retrieveConnectionStringFromArm ---------------- *)

\* C28: one run of retrieveConnectionStringFromArm acquires the token exactly once and
\* invokes retrieveResourceInfofromArm at most once, whether or not a resource id was
\* supplied.
C28_OneTokenOneLocatorQuery ==
    entry = "retrieveConnectionStringFromArm" =>
        /\ tokenRequests <= 1
        /\ locatorCalls <= 1
        /\ apc = "listing" => tokenRequests = 1

\* C29: in one run of retrieveConnectionStringFromArm without a supplied resource id, the
\* subscription the management client is bound to and the resource group passed to
\* listConnectionStrings come from the same located resource id.
C29_SubscriptionAndGroupOfOneId ==
    (entry = "retrieveConnectionStringFromArm" /\ suppliedId = EmptyId /\ apc = "listing") =>
        \E i \in 1..Len(locatorResults) :
            /\ managementClients[1].subscriptionId =
                   parsedAzureResourceId(locatorResults[i]).subscriptionId
            /\ resourceGroup = parsedAzureResourceId(locatorResults[i]).resourceGroup

(* ----------------------- lifecycle of a registry entry ----------------------- *)

\* C30: the entry of a key goes from absent to present only by a successful connect for
\* that key, and from present to absent only by disconnect for that key; hasConnection,
\* listDatabases, listCollections, removeDatabase, removeCollection and insertDocuments
\* never add, replace or remove an entry.
C30_EntryLifecycle ==
    [][/\ \A s \in Servers :
              /\ (~hasConnection(s) /\ _mongoClients'[s] # Undefined) =>
                     \E t \in Tasks :
                         /\ pc[t] = "connecting" /\ server[t] = s /\ pc'[t] = "idle"
                         /\ ret'.op = "connect" /\ ret'.server = s
                         /\ ret'.val = _mongoClients'[s]
              /\ (hasConnection(s) /\ _mongoClients'[s] = Undefined) =>
                     \E t \in Tasks :
                         pc[t] = "idle" /\ pc'[t] = "closing" /\ server'[t] = s
       /\ (\E t \in Tasks : /\ pc'[t] # pc[t]
                            /\ \/ pc[t] \in ReadOps \cup {"insertDocuments"}
                               \/ pc'[t] \in ReadOps \cup {"insertDocuments"}) =>
              _mongoClients' = _mongoClients]_vars

C30_Witness ==
    /\ \E t \in Tasks :
           /\ pc[t] = "removeCollection"
           /\ hasConnection(server[t])
    /\ \E c \in Conns : clientState[c] = "closed"


\* C23: when the metadata of the resolved account has no ARM endpoint, building a
\* management or metrics client fails with EndpointNotConfigured before any token is
\* requested and before any client is constructed.
C23_NoEndpointNoTokenNoClient ==
    (armEndpoint = 0 /\ \E i \in 1..Len(steps) : steps[i] = "endpoint") =>
        /\ aresult = ArmThrew("EndpointNotConfigured", "factory")
        /\ tokenRequests = 0
        /\ locatorCalls = 0
        /\ managementClients = <<>>

\* a metrics client was asked for and the account found has no ARM endpoint
C23_Witness ==
    /\ entry = "createArmMonitorClient"
    /\ steps = <<"account", "endpoint">> /\ armEndpoint = 0
    /\ aresult.kind = "threw"

\* createMongoCollection of appContext.ts 260-283 with an authentication type other
\* than AzureMFA
DirectFlow ==
    /\ version = "appContext" /\ op = "createMongoCollection"
    /\ info.authenticationType # "AzureMFA"

\* C25: when the authentication type is not AzureMFA, createMongoCollection never
\* retrieves a connection string from ARM (no account lookup, token, locator or
\* management plane call); when getCredentials settles it passes the stored password
\* straight to connect, and with no stored password it rejects and connect is not called.
C25_DirectFlow ==
    /\ [](DirectFlow => (retrievals = 0 /\ opc # "retrieving"))
    /\ [][\A password \in Passwords :
              (DirectFlow /\ CredentialsCreate(password)) =>
                  IF password = "undefined"
                  THEN /\ oresult'.kind = "rejected"
                       /\ opc' = "done"
                       /\ connectCalls' = 0
                       /\ pc' = pc
                  ELSE /\ connectCalls' = 1
                       /\ pc'[OrchTask] = "connecting"
                       /\ server'[OrchTask] = info.server
                       /\ connectionString'[OrchTask] = password]_vars

\* a collection was created over a connection opened with the stored password
C25_Witness ==
    /\ DirectFlow
    /\ oresult = Resolved /\ connectCalls = 1 /\ retrievals = 0
    /\ hasConnection(info.server)

(* ------------------------------ credential provider ----------------------------- *)

\* the positions of the registered accounts whose accountId is the requested one
Registered == {i \in 1..Len(accounts) : accounts[i].accountId = accountId}

\* C21: retrieveAzureAccount fails with AccountNotFound when no registered account has
\* the requested accountId, and otherwise returns the first account of the listing whose
\* accountId is the requested one.
C21_FirstMatchingAccount ==
    (call = "retrieveAzureAccount" /\ cpc = "done") =>
        IF Registered = {}
        THEN cresult = CredThrew("AccountNotFound")
        ELSE /\ cresult.kind = "returned"
             /\ cresult.value \in Registered
             /\ \A i \in Registered : cresult.value <= i

\* the account returned is neither the first of the listing nor the last that matches
C21_Witness ==
    /\ call = "retrieveAzureAccount" /\ cpc = "done"
    /\ cresult.kind = "returned" /\ cresult.value = 2
    /\ 3 \in Registered

\* C22: retrieveAzureToken fails with TokenAcquisitionFailed whenever the token exchange
\* returns no token, and looks the account up before the exchange: with an unknown
\* account it fails with AccountNotFound and no token was requested.
C22_TokenAfterAccount ==
    call = "retrieveAzureToken" =>
        /\ azureToken = "undefined" => cresult = CredThrew("TokenAcquisitionFailed")
        /\ tokenExchanges > 0 => azureAccount \in Registered
        /\ (cpc = "done" /\ Registered = {}) =>
               /\ cresult = CredThrew("AccountNotFound")
               /\ tokenExchanges = 0

\* the exchange of a registered account returned no token
C22_Witness ==
    /\ call = "retrieveAzureToken" /\ cpc = "done"
    /\ tokenExchanges = 1 /\ azureToken = "undefined"
    /\ cresult = CredThrew("TokenAcquisitionFailed")

\* C24: retrievePortalEndpoint fails with EndpointNotConfigured when the metadata of the
\* account has no portal endpoint; it never returns an absent value.
C24_PortalEndpointOrError ==
    (call = "retrievePortalEndpoint" /\ cpc = "done" /\ azureAccount # 0) =>
        IF accounts[azureAccount].portalEndpoint = 0
        THEN cresult = CredThrew("EndpointNotConfigured")
        ELSE cresult = CredReturned(1)

(* --------------------------- fan-out over the resources -------------------------- *)

\* the remote calls of a per-item retrieval other than the throughput lookup
RetrievalCalls == {"listMongoDBCollections", "getUsageSizeInKB", "metrics.list"}

\* C27: the aggregate over databases or collections resolves only when every per-item
\* retrieval has settled, with exactly one info per named resource in the order of the
\* listing, and never when a call of a per-item retrieval (the usage-size and the
\* document-count metric calls included) has failed.
C27_FanOutJoin ==
    fres.kind = "resolved" =>
        /\ \A i \in 1..Len(items) : ipc[i] \in {"fulfilled", "rejected"}
        /\ Len(fres.infos) = Cardinality({n \in 1..Len(resources) : resources[n]})
        /\ \A i \in 1..Len(fres.infos) :
               /\ resources[fres.infos[i].name]
               /\ \A j \in 1..Len(fres.infos) : i < j => fres.infos[i].name < fres.infos[j].name
        /\ \A i \in 1..Len(items) : ifailed[i] \cap RetrievalCalls = {}

\* C26: a failing throughput lookup of a database or collection is recorded as an empty
\* throughput setting and does not fail the retrieval of the item, whose info is still
\* returned; and retrieveConnectionStringFromArm gets as far as selecting or returning a
\* connection string only with an ARM endpoint, a token, a located resource, a listed
\* response and a connection string that are all really there: a failure of one of them
\* ends the run with an error and is never replaced by a default.
C26_SoftErrorsOnlyInEnrichment ==
    /\ \A i \in 1..Len(items) :
           "getThroughput" \in ifailed[i] =>
               /\ iinfo[i].throughputSetting = ""
               /\ ipc[i] = "rejected" =>
                      ifailed[i] \cap {"listMongoDBCollections", "getUsageSizeInKB"} # {}
               /\ fres.kind = "resolved" => fres.infos[i] = iinfo[i]
    /\ entry = "retrieveConnectionStringFromArm" =>
           /\ aresult.kind = "threw" => (spc = "idle" /\ sret = NoResult)
           /\ apc \in {"listing", "selecting"} =>
                  /\ armEndpoint = 1
                  /\ credentials # 0
                  /\ azureResourceId # EmptyId
                  /\ \A k \in 1..Len(locatorResults) : locatorResults[k] # NoRow
           /\ sret.kind = "returned" =>
                  /\ apc = "selecting"
                  /\ ~ListAbsent
                  /\ sret.connectionString # 0

\* an aggregate resolved with the info of an item whose throughput lookup failed
C26_Witness ==
    /\ fres.kind = "resolved"
    /\ \E i \in 1..Len(items) :
           /\ "getThroughput" \in ifailed[i]
           /\ fres.infos[i].throughputSetting = ""
           /\ fres.infos[i].usageSizeKB = "size"

(* ------------------------- the registry under concurrent calls ------------------------ *)

\* C31: once a disconnect(s) has completed and no connect(s, ...) was called afterwards,
\* hasConnection(s) is false, also when a connect(s, ...) called before the disconnect
\* was still awaiting MongoClient.connect while the disconnect ran.
C31_DisconnectedStaysAbsent ==
    \A s \in DOMAIN disconnected : disconnected[s] => ~hasConnection(s)

\* the tasks whose disconnect has called close() on connection c and awaits it
Closers(c) == {t \in Tasks : pc[t] = "closing" /\ client[t] = c}

\* C32: every connection is closed at most once. Whatever the interleaving of the
\* disconnect calls on a key, close() is invoked only on the connection that is the entry
\* of the key, which was never closed before and stops being the entry in the same
\* step, so at most one call ever awaits the close of a connection; a disconnect on the
\* key that runs before that close has completed finds no entry and invokes nothing.
C32_ClosedAtMostOnce ==
    /\ [](\A c \in Conns :
              /\ Cardinality(Closers(c)) <= 1
              /\ clientState[c] = "closing" <=> Closers(c) # {}
              /\ clientState[c] \in {"closing", "closed"} =>
                     \A s \in Servers : _mongoClients[s] # c)
    /\ [][\A t \in Tasks, s \in Servers :
              /\ (pc[t] = "idle" /\ pc'[t] = "closing" /\ server'[t] = s) =>
                     /\ client'[t] = _mongoClients[s]
                     /\ clientState[client'[t]] = "open"
                     /\ ~hasConnection(s)'
              /\ (disconnect(t, s) /\ \E u \in Tasks : pc[u] = "closing" /\ server[u] = s
                                   /\ ~hasConnection(s)) =>
                     /\ clientState' = clientState
                     /\ pc' = pc
                     /\ ret'.kind = "resolved"]_vars

\* of the only connection ever opened, the close is pending and a second disconnect of
\* its key has returned meanwhile
C32_Witness ==
    /\ nextClient = 2
    /\ clientState[1] = "closing"
    /\ \E t \in Tasks : pc[t] = "closing" /\ client[t] = 1 /\ server[t] = clientServer[1]
    /\ ret.op = "disconnect" /\ ret.server = clientServer[1] /\ ret.kind = "resolved"

(* ------------------------------- getMongoShellOptions ------------------------------ *)

\* C33: every call of getMongoShellOptions eventually settles: when each awaited call of
\* a collaborator returns or fails, the promise the call returned is resolved or rejected
\* in the end, on every path.
C33_ShellOptionsSettles ==
    (op = "getMongoShellOptions" /\ opc = "prompting") ~>
        (op = "getMongoShellOptions" /\ oresult.kind # "none")

(* ------------------------------ the picks of the chooser ----------------------------- *)

\* C34: the candidates shown to the chooser are as many as the connection strings the
\* management plane listed and in the same order, the candidate at index 0 is marked
\* picked and no other candidate is.
C34_PicksMirrorTheList ==
    spc = "picking" =>
        /\ Len(connectionStringsPicks) = Len(TheList)
        /\ \A i \in 1..Len(connectionStringsPicks) :
               /\ connectionStringsPicks[i].connectionString = TheList[i].connectionString
               /\ connectionStringsPicks[i].picked <=> (i = 1)

\* the chooser is shown as many candidates as the bound allows, the first two different
C34_Witness ==
    /\ spc = "picking"
    /\ Len(connectionStringsPicks) = MaxCandidates
    /\ connectionStringsPicks[1].connectionString # connectionStringsPicks[2].connectionString
    /\ connectionStringsPicks[1].picked

(* --------------------- data operations on a server without entry -------------------- *)

\* C35: a data operation on a server that has no registry entry opens no connection and
\* leaves the registry as it is: listDatabases and listCollections return an empty list,
\* removeDatabase and removeCollection return false, insertDocuments rejects with
\* "Not connected", and none of them awaits anything.
C35_NoEntryNoConnection ==
    [][\A t \in Tasks, s \in Servers :
          (~hasConnection(s) /\ ((\E o \in ReadOps : ReadStart(t, o, s)) \/ InsertStart(t, s))) =>
              /\ _mongoClients' = _mongoClients
              /\ clientState' = clientState
              /\ nextClient' = nextClient
              /\ pc' = pc
              /\ ret'.server = s
              /\ ret'.kind = CASE ret'.op \in {"listDatabases", "listCollections"} -> "returned []"
                               [] ret'.op \in {"removeDatabase", "removeCollection"} ->
                                      "returned false"
                               [] ret'.op = "insertDocuments" -> "rejected Not connected"
                               [] OTHER -> "none"]_vars

\* insertDocuments was rejected for a server without entry while the other server has one
C35_Witness ==
    /\ ret.op = "insertDocuments" /\ ret.kind = "rejected Not connected"
    /\ ~hasConnection(ret.server)
    /\ \E s \in Servers : hasConnection(s)

(* -------------------------- the older createMongoCollection ------------------------- *)

\* C36: in the older createMongoCollection, when the stored credential is missing the
\* call rejects and makes no connect attempt: connect is never called with an absent
\* connection string, and the registry stays as it was when the call was made.
C36_OlderRejectsWithoutConnect ==
    (version = "older" /\ op = "createMongoCollection") =>
        /\ oresult = Rejected("MissingCredentials") =>
               /\ connectCalls = 0
               /\ _mongoClients = registryAtCall
        /\ pc[OrchTask] = "connecting" => connectionString[OrchTask] # "undefined"

====
